---- MODULE Spec2Model ----
(***************************************************************************)
(* A model of the zen-lang compiler pipeline: the driver                   *)
(* (src/src/compiler.rs), the lexer (src/src/lexer/lexer.rs), the parser   *)
(* (src/src/parser/parser.rs), the type checker                            *)
(* (src/src/typechecker/typechecker.rs), the ownership checker             *)
(* (src/src/ownership.rs) and the code generator (src/src/codegen).  Each  *)
(* component has its own specification over the shared variable list; the  *)
(* variables of the other components stay at their idle values.            *)
(***************************************************************************)
EXTENDS Integers, Sequences, FiniteSets, TLC

VARIABLES
    \* ---- driver: Compiler::compile_internal ----
    dpc,          \* position of the driver inside compile_internal
    verbose,      \* Compiler.verbose
    hasOutput,    \* the `output` argument is Some(_)
    started,      \* sequence of the passes started so far, in order
    dresult,      \* "none" while running, "ok", or the error returned
    llFile,       \* zen_temp_{pid}.ll exists
    objFile,      \* zen_temp_{pid}.o exists
    stats,        \* Compiler.stats is Some(_)
    debugFile,    \* the persistent <input>.ll debug copy exists
    \* ---- lexer: Lexer ----
    input,        \* the source, a sequence of characters
    lpos,         \* number of characters consumed from `input`
    lline,        \* Lexer.line
    lcol,         \* Lexer.column
    tokens,       \* the `tokens` vector of Lexer::tokenize
    lpc,          \* "lex" inside the while loop, "done" after the return
    \* ---- parser: Parser ----
    ptoks,        \* Parser.tokens (token kinds)
    current,      \* Parser.current
    perrors,      \* Len(Parser.errors), capped at MaxErrors
    panic_mode,   \* Parser.panic_mode
    had_error,    \* Parser.had_error
    program,      \* the statements added to the Program so far
    ppc,          \* "parse" in the loop, "ok"/"err" returned, "panicked"
    \* ---- ownership checker: OwnershipChecker ----
    variables,    \* OwnershipChecker.variables: name -> OwnershipInfo / NoInfo
    scope_level,  \* OwnershipChecker.scope_level
    errors,       \* OwnershipChecker.errors
    opc,          \* "check" while walking, "returned" after the end of check,
                  \* "aborted" after a `?` returned an Err out of check
    oresult,      \* <<>> while walking, then <<the Result returned>>
    line,         \* source line of the statement checked next
    released,     \* the names whose borrows the last step of the walk dropped
    \* ---- type checker: TypeChecker ----
    tprogram,     \* the statements of the Program given to TypeChecker::check
    tindex,       \* number of top-level statements check has gone through
    tvariables,   \* TypeChecker.variables: name -> <<TypeInfo>> / <<>>
    functions,    \* TypeChecker.functions: name -> <<signature>> / <<>>
    current_function, \* TypeChecker.current_function: <<name>> / <<>>
    tpc,          \* "check" in the loop of check, "returned" after it
    tresult,      \* <<>> while checking, then <<the Result returned>>
    \* ---- code generator: CodeGenerator ----
    gprogram,     \* the statements of the Program given to CodeGenerator::generate
    gindex,       \* number of top-level statements generate has lowered
    strings,      \* StringGenerator.strings: the literals in table order
    label_counter, \* CodeGenerator.label_counter
    gir,          \* the LLIR text so far: one instruction list per function
    gpc           \* "start", "lower" in the last loop of generate, "returned"

dvars == <<dpc, verbose, hasOutput, started, dresult, llFile, objFile, stats,
          debugFile>>
lvars == <<input, lpos, lline, lcol, tokens, lpc>>
pvars == <<ptoks, current, perrors, panic_mode, had_error, program, ppc>>
ovars == <<variables, scope_level, errors, opc, oresult, line, released>>
tvars == <<tprogram, tindex, tvariables, functions, current_function, tpc,
          tresult>>
gvars == <<gprogram, gindex, strings, label_counter, gir, gpc>>
vars == <<dvars, lvars, pvars, ovars, tvars, gvars>>

(***************************************************************************)
(*                               DRIVER                                    *)
(***************************************************************************)

\* Compiler::compile (verbose = true) and Compiler::run (verbose = false)
\* both enter compile_internal; `output` is Some or None.
DriverInit ==
    /\ dpc = "validate"
    /\ verbose \in BOOLEAN
    /\ hasOutput \in BOOLEAN
    /\ started = <<>>
    /\ dresult = "none"
    /\ llFile = FALSE
    /\ objFile = FALSE
    /\ stats = FALSE
    /\ debugFile = FALSE
    \* the other components are not exercised and stay idle
    /\ input = <<>> /\ lpos = 0 /\ lline = 1 /\ lcol = 1
    /\ tokens = <<>> /\ lpc = "idle"
    /\ ptoks = <<>> /\ current = 0 /\ perrors = 0
    /\ panic_mode = FALSE /\ had_error = FALSE
    /\ program = <<>> /\ ppc = "idle"
    /\ variables = <<>> /\ scope_level = 0 /\ errors = <<>>
    /\ opc = "idle" /\ oresult = <<>> /\ line = 0 /\ released = {}
    /\ tprogram = <<>> /\ tindex = 0 /\ tvariables = <<>>
    /\ functions = <<>> /\ current_function = <<>>
    /\ tpc = "idle" /\ tresult = <<>>
    /\ gprogram = <<>> /\ gindex = 0 /\ strings = <<>>
    /\ label_counter = 0 /\ gir = <<>> /\ gpc = "idle"

\* `bail!` / `?`: the function returns the error, nothing else runs.
bail(msg) ==
    /\ dpc' = "returned"
    /\ dresult' = msg

\* if !Path::new(input).exists() { bail!(..) }
validate_input ==
    /\ dpc = "validate"
    /\ \E exists \in BOOLEAN :
         IF exists THEN dpc' = "read" /\ dresult' = dresult
                   ELSE bail("no_input")
    /\ UNCHANGED <<verbose, hasOutput, started, llFile, objFile, stats, debugFile>>
    /\ UNCHANGED <<lvars, pvars, ovars, tvars, gvars>>

\* std::fs::read_to_string(input).map_err(..)?
read_source ==
    /\ dpc = "read"
    /\ \E ok \in BOOLEAN :
         IF ok THEN dpc' = "lex" /\ dresult' = dresult
               ELSE bail("read_failed")
    /\ UNCHANGED <<verbose, hasOutput, started, llFile, objFile, stats, debugFile>>
    /\ UNCHANGED <<lvars, pvars, ovars, tvars, gvars>>

\* let tokens = lexer.tokenize();   (infallible)
run_lexer ==
    /\ dpc = "lex"
    /\ started' = Append(started, "lex")
    /\ dpc' = "parse"
    /\ UNCHANGED <<verbose, hasOutput, dresult, llFile, objFile, stats, debugFile>>
    /\ UNCHANGED <<lvars, pvars, ovars, tvars, gvars>>

\* parser.parse().map_err(..)?
run_parser ==
    /\ dpc = "parse"
    /\ started' = Append(started, "parse")
    /\ \E ok \in BOOLEAN :
         IF ok THEN dpc' = "typecheck" /\ dresult' = dresult
               ELSE bail("parse_error")
    /\ UNCHANGED <<verbose, hasOutput, llFile, objFile, stats, debugFile>>
    /\ UNCHANGED <<lvars, pvars, ovars, tvars, gvars>>

\* typechecker.check(&program).map_err(..)?
run_typechecker ==
    /\ dpc = "typecheck"
    /\ started' = Append(started, "typecheck")
    /\ \E ok \in BOOLEAN :
         IF ok THEN dpc' = "ownership" /\ dresult' = dresult
               ELSE bail("type_error")
    /\ UNCHANGED <<verbose, hasOutput, llFile, objFile, stats, debugFile>>
    /\ UNCHANGED <<lvars, pvars, ovars, tvars, gvars>>

\* run_ownership with the Err of the check not propagated by `?`
run_ownership_ignored ==
    /\ dpc = "ownership"
    /\ started' = Append(started, "ownership")
    /\ \E ok \in BOOLEAN :
         /\ dpc' = "codegen"
         /\ dresult' = IF ok THEN dresult ELSE "ownership_error"
    /\ UNCHANGED <<verbose, hasOutput, llFile, objFile, stats, debugFile>>
    /\ UNCHANGED <<lvars, pvars, ovars, tvars, gvars>>

\* ownership_checker.check(&program).map_err(..)?
run_ownership ==
    /\ dpc = "ownership"
    /\ started' = Append(started, "ownership")
    /\ \E ok \in BOOLEAN :
         IF ok THEN dpc' = "codegen" /\ dresult' = dresult
               ELSE bail("ownership_error")
    /\ UNCHANGED <<verbose, hasOutput, llFile, objFile, stats, debugFile>>
    /\ UNCHANGED <<lvars, pvars, ovars, tvars, gvars>>

\* let llvm_ir = codegen.generate(&program);   (infallible)
run_codegen ==
    /\ dpc = "codegen"
    /\ started' = Append(started, "codegen")
    /\ dpc' = "write_ir"
    /\ UNCHANGED <<verbose, hasOutput, dresult, llFile, objFile, stats, debugFile>>
    /\ UNCHANGED <<lvars, pvars, ovars, tvars, gvars>>

\* std::fs::write(&ll_path, &llvm_ir).map_err(..)?  and, when verbose, the
\* debug copy `let _ = std::fs::write(&debug_path, ..)`, failure ignored.
write_ir ==
    /\ dpc = "write_ir"
    /\ \E ok \in BOOLEAN, dbg \in BOOLEAN :
         IF ok THEN /\ dpc' = "llc" /\ dresult' = dresult /\ llFile' = TRUE
                    /\ debugFile' = (verbose /\ dbg)
               ELSE bail("write_failed") /\ UNCHANGED <<llFile, debugFile>>
    /\ UNCHANGED <<verbose, hasOutput, started, objFile, stats>>
    /\ UNCHANGED <<lvars, pvars, ovars, tvars, gvars>>

\* Command::new("llc")...output().map_err(..)?  then the status test.
\* outcome "spawn_failed": llc could not be started, `?` returns;
\*         "failed": llc exited non-zero, only the .ll file is removed;
\*         "ok": the object file is written.
\* A failing llc may or may not leave an object file behind.
run_llc ==
    /\ dpc = "llc"
    /\ started' = Append(started, "llc")
    /\ \E outcome \in {"spawn_failed", "failed", "ok"}, leftover \in BOOLEAN :
         CASE outcome = "spawn_failed" ->
                bail("llc_not_started") /\ UNCHANGED <<llFile, objFile>>
           [] outcome = "failed" ->
                bail("llc_failed") /\ llFile' = FALSE /\ objFile' = leftover
           [] outcome = "ok" ->
                dpc' = "link" /\ dresult' = dresult
                /\ objFile' = TRUE /\ llFile' = llFile
    /\ UNCHANGED <<verbose, hasOutput, stats, debugFile>>
    /\ UNCHANGED <<lvars, pvars, ovars, tvars, gvars>>

\* Command::new("gcc")...output().map_err(..)?, cleanup, stats, status test.
run_linker ==
    /\ dpc = "link"
    /\ started' = Append(started, "link")
    /\ \E outcome \in {"spawn_failed", "failed", "ok"} :
         CASE outcome = "spawn_failed" ->
                bail("linker_not_started")
                /\ UNCHANGED <<llFile, objFile, stats>>
           [] outcome = "failed" ->
                bail("link_failed")
                /\ llFile' = FALSE /\ objFile' = FALSE /\ stats' = TRUE
           [] outcome = "ok" ->
                dpc' = "returned" /\ dresult' = "ok"
                /\ llFile' = FALSE /\ objFile' = FALSE /\ stats' = TRUE
    /\ UNCHANGED <<verbose, hasOutput, debugFile>>
    /\ UNCHANGED <<lvars, pvars, ovars, tvars, gvars>>

DriverNext ==
    \/ validate_input
    \/ read_source
    \/ run_lexer
    \/ run_parser
    \/ run_typechecker
    \/ run_ownership
    \/ run_codegen
    \/ write_ir
    \/ run_llc
    \/ run_linker

DriverSpec ==
    /\ DriverInit
    /\ [][DriverNext]_vars

(***************************************************************************)
(*                                LEXER                                    *)
(***************************************************************************)

\* Option::None
None == "None"

\* Bound on the length of the source text, and the characters it is drawn
\* from: blank, newline, the comment, string and char delimiters, the escape
\* character, a letter, a digit, an operator prefix and a stray character.
MaxLen == 4
Chars == {" ", "\n", "/", "*", "\"", "\\", "'", "a", "1", "&", "@"}

Digits == {"0", "1", "2", "3", "4", "5", "6", "7", "8", "9"}
Letters == {"a", "b", "c", "d", "e", "f", "g", "h", "i", "j", "k", "l", "m",
            "n", "o", "p", "q", "r", "s", "t", "u", "v", "w", "x", "y", "z"}

Inputs == UNION {[1..n -> Chars] : n \in 0..MaxLen}

\* Token::new / Token::eof
Token(kind, lexeme, ln, column) ==
    [kind |-> kind, lexeme |-> lexeme, line |-> ln, column |-> column]

eof(ln, column) == Token("EOF", <<>>, ln, column)

\* The lexer cursor: s.pos characters consumed, s.line, s.column.
\* Lexer::peek
peek(inp, s) == IF s.pos < Len(inp) THEN inp[s.pos + 1] ELSE None

\* Lexer::advance: the cursor after consuming one character (the column is
\* only incremented when a character was there).
advance(inp, s) ==
    IF s.pos < Len(inp)
    THEN [s EXCEPT !.pos = s.pos + 1, !.column = s.column + 1]
    ELSE s

\* A result of next_token and of the literal scanners: the Option<Token> as
\* a sequence of zero or one token, and the cursor after it.
Produced(tok, s) == [tok |-> <<tok>>, s |-> s]
NoToken(s) == [tok |-> <<>>, s |-> s]

\* single-character tokens of next_token
SingleKind(ch) ==
    CASE ch = "+" -> "Plus"
      [] ch = "*" -> "Star"
      [] ch = "%" -> "Percent"
      [] ch = "^" -> "Caret"
      [] ch = "~" -> "Tilde"
      [] ch = "?" -> "Question"
      [] ch = ";" -> "Semicolon"
      [] ch = "," -> "Comma"
      [] ch = "(" -> "LeftParen"
      [] ch = ")" -> "RightParen"
      [] ch = "{" -> "LeftBrace"
      [] ch = "}" -> "RightBrace"
      [] ch = "[" -> "LeftBracket"
      [] ch = "]" -> "RightBracket"
      [] OTHER -> "Unknown"

\* operators with a two-character form: <<first, second, kind of the pair>>
DoubleForms ==
    {<<"-", ">", "ArrowRight">>, <<"<", "=", "LessEqual">>,
     <<"<", "-", "ArrowLeft">>, <<">", "=", "GreaterEqual">>,
     <<"=", "=", "EqualEqual">>, <<"=", ">", "ArrowRight">>,
     <<"!", "=", "NotEqual">>, <<"&", "&", "And">>, <<"|", "|", "Or">>,
     <<":", ":", "DoubleColon">>, <<".", ".", "DotDot">>}

\* kind of the one-character form of those operators
PrefixKind(ch) ==
    CASE ch = "-" -> "Minus"
      [] ch = "<" -> "LessThan"
      [] ch = ">" -> "GreaterThan"
      [] ch = "=" -> "Equal"
      [] ch = "!" -> "Not"
      [] ch = "&" -> "Ampersand"
      [] ch = "|" -> "Pipe"
      [] ch = ":" -> "Colon"
      [] ch = "." -> "Dot"

PrefixChars == {"-", "<", ">", "=", "!", "&", "|", ":", "."}

\* the keyword table of identifier_or_keyword
KeywordKind(lexeme) ==
    CASE
         lexeme = <<"l", "e", "t">> -> "Let"
      [] lexeme = <<"m", "u", "t">> -> "Mut"
      [] lexeme = <<"f", "n">> -> "Fn"
      [] lexeme = <<"r", "e", "t", "u", "r", "n">> -> "Return"
      [] lexeme = <<"i", "f">> -> "If"
      [] lexeme = <<"e", "l", "s", "e">> -> "Else"
      [] lexeme = <<"f", "o", "r">> -> "For"
      [] lexeme = <<"w", "h", "i", "l", "e">> -> "While"
      [] lexeme = <<"m", "a", "t", "c", "h">> -> "Match"
      [] lexeme = <<"s", "t", "r", "u", "c", "t">> -> "Struct"
      [] lexeme = <<"c", "o", "n", "s", "t">> -> "Const"
      [] lexeme = <<"m", "o", "d">> -> "Mod"
      [] lexeme = <<"u", "s", "e">> -> "Use"
      [] lexeme = <<"p", "u", "b">> -> "Pub"
      [] lexeme = <<"c", "r", "a", "t", "e">> -> "Crate"
      [] lexeme = <<"s", "u", "p", "e", "r">> -> "Super"
      [] lexeme = <<"s", "e", "l", "f">> -> "Self_"
      [] lexeme = <<"t", "r", "u", "e">> -> "True"
      [] lexeme = <<"f", "a", "l", "s", "e">> -> "False"
      [] lexeme = <<"n", "u", "l", "l">> -> "Null"
      [] lexeme = <<"i", "8">> -> "Int8"
      [] lexeme = <<"i", "1", "6">> -> "Int16"
      [] lexeme = <<"i", "3", "2">> -> "Int32"
      [] lexeme = <<"i", "6", "4">> -> "Int64"
      [] lexeme = <<"u", "8">> -> "UInt8"
      [] lexeme = <<"u", "1", "6">> -> "UInt16"
      [] lexeme = <<"u", "3", "2">> -> "UInt32"
      [] lexeme = <<"u", "6", "4">> -> "UInt64"
      [] lexeme = <<"f", "3", "2">> -> "Float32"
      [] lexeme = <<"f", "6", "4">> -> "Float64"
      [] lexeme = <<"b", "o", "o", "l">> -> "Bool"
      [] lexeme = <<"s", "t", "r">> -> "Str"
      [] lexeme = <<"c", "h", "a", "r">> -> "Char"
      [] lexeme = <<"v", "o", "i", "d">> -> "Void"
      [] OTHER -> "Identifier"

\* the `while let Some(ch) = self.peek()` loop of string_literal
RECURSIVE string_loop(_, _, _, _, _)
string_loop(inp, s, lexeme, start_line, start_col) ==
    LET ch == peek(inp, s) IN
    IF ch = None
    THEN Produced(Token("Unknown", <<"Unterminated string: ">> \o lexeme,
                        start_line, start_col), s)
    ELSE IF ch = "\""
    THEN Produced(Token("StringLiteral", Append(lexeme, "\""),
                        start_line, start_col), advance(inp, s))
    ELSE IF ch = "\\"
    THEN LET s1 == advance(inp, s)
             escaped == peek(inp, s1)
         IN IF escaped = None
            THEN string_loop(inp, s1, Append(lexeme, ch), start_line, start_col)
            ELSE string_loop(inp, advance(inp, s1),
                             Append(Append(lexeme, ch), escaped),
                             start_line, start_col)
    ELSE string_loop(inp, advance(inp, s), Append(lexeme, ch),
                     start_line, start_col)

\* Lexer::string_literal (the opening quote is already consumed)
string_literal(inp, s) ==
    string_loop(inp, s, <<"\"">>, s.line, s.column - 1)

\* Lexer::char_literal (the opening quote is already consumed)
char_literal(inp, s) ==
    LET start_line == s.line
        start_col == s.column - 1
        ch == peek(inp, s)
        s1 == advance(inp, s)
        \* the optional character and its optional escape partner
        esc == ch = "\\" /\ peek(inp, s1) # None
        s2 == IF ch # None /\ esc THEN advance(inp, s1) ELSE s1
        lex1 == IF ch = None THEN <<"'">>
                ELSE IF esc THEN <<"'", ch, peek(inp, s1)>>
                ELSE <<"'", ch>>
        closing == peek(inp, s2)
        s3 == advance(inp, s2)
    IN IF closing = "'"
       THEN Produced(Token("CharLiteral", Append(lex1, "'"),
                           start_line, start_col), s3)
       ELSE Produced(Token("Unknown", <<"Unterminated char: ">> \o lex1,
                           start_line, start_col), s3)

\* the digit loop of number_literal: <<cursor, lexeme, is_float>>
RECURSIVE number_loop(_, _, _, _)
number_loop(inp, s, lexeme, is_float) ==
    LET ch == peek(inp, s) IN
    IF ch \in Digits
    THEN number_loop(inp, advance(inp, s), Append(lexeme, ch), is_float)
    ELSE IF ch = "." /\ ~is_float
    THEN number_loop(inp, advance(inp, s), Append(lexeme, ch), TRUE)
    ELSE IF ch = "_"
    THEN number_loop(inp, advance(inp, s), Append(lexeme, ch), is_float)
    ELSE <<s, lexeme, is_float>>

\* the float suffix of number_literal: f, f3, f32, f6, f64
float_suffix(inp, sl) ==
    LET s == sl[1]
        lexeme == sl[2]
    IN IF peek(inp, s) # "f" THEN sl
       ELSE LET s1 == advance(inp, s)
                l1 == Append(lexeme, "f")
                ch == peek(inp, s1)
            IN IF ch \notin {"3", "6"} THEN <<s1, l1>>
               ELSE LET s2 == advance(inp, s1)
                        l2 == Append(l1, ch)
                    IN IF ch = "3" /\ peek(inp, s2) = "2"
                       THEN <<advance(inp, s2), Append(l2, "2")>>
                       ELSE IF ch = "6" /\ peek(inp, s2) = "4"
                       THEN <<advance(inp, s2), Append(l2, "4")>>
                       ELSE <<s2, l2>>

\* the integer suffix of number_literal; the `u` / `i` itself is consumed
\* but not pushed to the lexeme
int_suffix(inp, sl) ==
    LET s == sl[1]
        lexeme == sl[2]
    IN IF peek(inp, s) \notin {"u", "i"} THEN sl
       ELSE LET s1 == advance(inp, s)
                ch == peek(inp, s1)
            IN IF ch \notin {"8", "1", "3", "6"} THEN <<s1, lexeme>>
               ELSE LET s2 == advance(inp, s1)
                        l2 == Append(lexeme, ch)
                    IN IF ch \in {"1", "3"} /\ peek(inp, s2) = "6"
                       THEN LET s3 == advance(inp, s2)
                                l3 == Append(l2, "6")
                            IN IF ch = "1" /\ peek(inp, s3) = "2"
                               THEN <<advance(inp, s3), Append(l3, "2")>>
                               ELSE <<s3, l3>>
                       ELSE <<s2, l2>>

\* Lexer::number_literal (the first digit is already consumed)
number_literal(inp, s, first) ==
    LET body == number_loop(inp, s, <<first>>, FALSE)
        is_float == body[3]
        fs == float_suffix(inp, <<body[1], body[2]>>)
        is == int_suffix(inp, fs)
    IN Produced(Token(IF is_float THEN "FloatLiteral" ELSE "IntegerLiteral",
                      is[2], s.line, s.column - 1), is[1])

\* the loop of identifier_or_keyword
RECURSIVE ident_loop(_, _, _)
ident_loop(inp, s, lexeme) ==
    LET ch == peek(inp, s) IN
    IF ch \in Letters \cup Digits \cup {"_"}
    THEN ident_loop(inp, advance(inp, s), Append(lexeme, ch))
    ELSE <<s, lexeme>>

\* Lexer::identifier_or_keyword (the first character is already consumed)
identifier_or_keyword(inp, s, first) ==
    LET r == ident_loop(inp, s, <<first>>)
    IN Produced(Token(KeywordKind(r[2]), r[2], s.line, s.column - 1), r[1])

\* `// ...`: skip to the end of the line
RECURSIVE skip_line(_, _)
skip_line(inp, s) ==
    IF peek(inp, s) # None /\ peek(inp, s) # "\n"
    THEN skip_line(inp, advance(inp, s))
    ELSE s

\* `/* ... */`: the cursor after the closing `*/` and TRUE, or the cursor at
\* the end of the input and FALSE
RECURSIVE skip_block(_, _)
skip_block(inp, s) ==
    IF peek(inp, s) = None THEN <<s, FALSE>>
    ELSE LET ch == peek(inp, s)
             s1 == advance(inp, s)
         IN IF ch = "*" /\ peek(inp, s1) = "/"
            THEN <<advance(inp, s1), TRUE>>
            ELSE skip_block(inp, s1)

\* Lexer::next_token.  s1 is the cursor after `self.advance()?`.
RECURSIVE next_token(_, _)
next_token(inp, s) ==
    LET ch == peek(inp, s)
        s1 == advance(inp, s)
    IN
    IF ch = None THEN NoToken(s)
    ELSE IF ch \in {" ", "\t", "\r"} THEN next_token(inp, s1)
    ELSE IF ch = "\n"
    THEN next_token(inp, [s1 EXCEPT !.line = s1.line + 1, !.column = 1])
    ELSE IF ch = "/"
    THEN IF peek(inp, s1) = "/"
         THEN next_token(inp, skip_line(inp, s1))
         ELSE IF peek(inp, s1) = "*"
         THEN LET s2 == advance(inp, s1)
                  r == skip_block(inp, s2)
              IN IF r[2]
                 THEN next_token(inp, r[1])
                 ELSE Produced(Token("Unknown",
                                     <<"Unterminated multi-line comment">>,
                                     s2.line, s2.column), r[1])
         ELSE Produced(Token("Slash", <<"/">>, s1.line, s1.column - 1), s1)
    ELSE IF ch \in PrefixChars
    THEN IF \E d \in DoubleForms : d[1] = ch /\ d[2] = peek(inp, s1)
         THEN LET d == CHOOSE d \in DoubleForms :
                           d[1] = ch /\ d[2] = peek(inp, s1)
                  s2 == advance(inp, s1)
              IN Produced(Token(d[3], <<ch, d[2]>>, s2.line, s2.column - 2), s2)
         ELSE Produced(Token(PrefixKind(ch), <<ch>>, s1.line, s1.column - 1), s1)
    ELSE IF ch = "\"" THEN string_literal(inp, s1)
    ELSE IF ch = "'" THEN char_literal(inp, s1)
    ELSE IF ch \in Digits THEN number_literal(inp, s1, ch)
    ELSE IF ch \in Letters \cup {"_"} THEN identifier_or_keyword(inp, s1, ch)
    ELSE Produced(Token(SingleKind(ch), <<ch>>, s1.line, s1.column - 1), s1)

\* Lexer::tokenize as a function of the source: the tokens of the while
\* loop, then the EOF token
RECURSIVE tokenize_loop(_, _, _)
tokenize_push(inp, r, toks) == tokenize_loop(inp, r.s, toks \o r.tok)

tokenize_loop(inp, s, toks) ==
    IF peek(inp, s) = None THEN Append(toks, eof(s.line, s.column))
    ELSE tokenize_push(inp, next_token(inp, s), toks)

tokenize(inp) == tokenize_loop(inp, [pos |-> 0, line |-> 1, column |-> 1], <<>>)

\* the token kinds of a token vector, the parser's view of it
kinds(toks) == [i \in 1..Len(toks) |-> toks[i].kind]

\* Lexer::new
LexerInit ==
    /\ input \in Inputs
    /\ lpos = 0
    /\ lline = 1
    /\ lcol = 1
    /\ tokens = <<>>
    /\ lpc = "lex"
    \* the other components are not exercised and stay idle
    /\ dpc = "idle" /\ verbose = FALSE /\ hasOutput = FALSE
    /\ started = <<>> /\ dresult = "none"
    /\ llFile = FALSE /\ objFile = FALSE /\ stats = FALSE
    /\ debugFile = FALSE
    /\ ptoks = <<>> /\ current = 0 /\ perrors = 0
    /\ panic_mode = FALSE /\ had_error = FALSE
    /\ program = <<>> /\ ppc = "idle"
    /\ variables = <<>> /\ scope_level = 0 /\ errors = <<>>
    /\ opc = "idle" /\ oresult = <<>> /\ line = 0 /\ released = {}
    /\ tprogram = <<>> /\ tindex = 0 /\ tvariables = <<>>
    /\ functions = <<>> /\ current_function = <<>>
    /\ tpc = "idle" /\ tresult = <<>>
    /\ gprogram = <<>> /\ gindex = 0 /\ strings = <<>>
    /\ label_counter = 0 /\ gir = <<>> /\ gpc = "idle"

cursor == [pos |-> lpos, line |-> lline, column |-> lcol]

\* one pass through `while self.peek().is_some()` of Lexer::tokenize
tokenize_step ==
    /\ lpc = "lex"
    /\ peek(input, cursor) # None
    /\ LET r == next_token(input, cursor)
       IN /\ tokens' = tokens \o r.tok
          /\ lpos' = r.s.pos
          /\ lline' = r.s.line
          /\ lcol' = r.s.column
    /\ UNCHANGED <<input, lpc>>
    /\ UNCHANGED <<dvars, pvars, ovars, tvars, gvars>>

\* tokenize with the final `tokens.push(Token::eof(..))` left out
tokenize_return_noeof ==
    /\ lpc = "lex"
    /\ peek(input, cursor) = None
    /\ lpc' = "done"
    /\ UNCHANGED <<input, lpos, lline, lcol, tokens>>
    /\ UNCHANGED <<dvars, pvars, ovars, tvars, gvars>>

\* the loop exit of Lexer::tokenize: push EOF and return
tokenize_return ==
    /\ lpc = "lex"
    /\ peek(input, cursor) = None
    /\ tokens' = Append(tokens, eof(lline, lcol))
    /\ lpc' = "done"
    /\ UNCHANGED <<input, lpos, lline, lcol>>
    /\ UNCHANGED <<dvars, pvars, ovars, tvars, gvars>>

LexerNext ==
    \/ tokenize_step
    \/ tokenize_return

LexerSpec ==
    /\ LexerInit
    /\ [][LexerNext]_vars

(***************************************************************************)
(* Properties of the lexer                                                 *)
(***************************************************************************)

\* the list holds exactly one EOF token, and it is the last one
EOFLast(ts) ==
    /\ Len(ts) >= 1
    /\ ts[Len(ts)].kind = "EOF"
    /\ \A i \in 1..(Len(ts) - 1) : ts[i].kind # "EOF"

HasUnknown(ts) == \E i \in 1..Len(ts) : ts[i].kind = "Unknown"

\* Malformed sources, described on the text alone:
\* a string opened by the first character and never closed,
UnterminatedString(inp) ==
    /\ Len(inp) >= 1 /\ inp[1] = "\""
    /\ \A i \in 2..Len(inp) : inp[i] # "\""
\* a block comment opened by the first two characters and never closed,
UnterminatedComment(inp) ==
    /\ Len(inp) >= 2 /\ inp[1] = "/" /\ inp[2] = "*"
    /\ \A i \in 3..(Len(inp) - 1) : ~(inp[i] = "*" /\ inp[i + 1] = "/")
\* a char literal opened by the first character and never closed,
MalformedChar(inp) ==
    /\ Len(inp) >= 1 /\ inp[1] = "'"
    /\ \A i \in 2..Len(inp) : inp[i] # "'"
\* a stray character outside any string, char literal or comment.
StrayChar(inp) ==
    /\ \E i \in 1..Len(inp) : inp[i] = "@"
    /\ \A i \in 1..Len(inp) : inp[i] \notin {"\"", "'", "/"}

Malformed(inp) ==
    \/ UnterminatedString(inp)
    \/ UnterminatedComment(inp)
    \/ MalformedChar(inp)
    \/ StrayChar(inp)

\* C2: for every input string Lexer::tokenize terminates (every pass through
\* its loop consumes at least one character of the finite input and the loop
\* is left once the input is used up), and the list it returns holds exactly
\* one EOF token, placed last; no EOF token is in the list before the return;
\* malformed input (unterminated string, unterminated block comment,
\* malformed char literal, stray character) leaves an Unknown token in the
\* returned list.
C2_LexerTotal ==
    /\ [][lpc = "lex" => \/ lpos' > lpos /\ lpos' <= Len(input)
                         \/ lpos = Len(input) /\ lpc' = "done"]_vars
    /\ [](lpc = "lex" => \A i \in 1..Len(tokens) : tokens[i].kind # "EOF")
    /\ [](lpc = "done" => /\ EOFLast(tokens)
                          /\ (Malformed(input) => HasUnknown(tokens)))

\* a malformed source of full length has been tokenized to the end and
\* produced ordinary tokens next to the Unknown one
C2_Witness ==
    /\ lpc = "done"
    /\ Malformed(input)
    /\ Len(input) = MaxLen
    /\ \E i \in 1..Len(tokens) : tokens[i].kind \notin {"Unknown", "EOF"}

(***************************************************************************)
(*                                PARSER                                   *)
(*                                                                         *)
(* Tokens are represented by their kind.  The parsing methods are          *)
(* operators from a token list and a cursor to a result: Ok with the       *)
(* cursor after the construct and its AST node, or Err with the cursor     *)
(* where the method gave up (Parser.current stays there).  The token kinds *)
(* Fn, Struct, While, For, Match, Use, LeftBrace and If are not drawn by   *)
(* the model's inputs, so the branches of `declaration` and `statement`    *)
(* that start with them are never taken.                                   *)
(***************************************************************************)

\* Bounds: tokens before the EOF token, and the cap of the error counter.
MaxToks == 4
MaxErrors == 3

\* token kinds drawn for the inputs of the parser
PKinds == {"Identifier", "IntegerLiteral", "Semicolon", "Equal", "Let",
           "Return", "Plus", "RightParen", "Ampersand", "Mut"}

TokenLists(max) ==
    UNION {{Append(t, "EOF") : t \in [1..n -> PKinds]} : n \in 0..max}

POk(cur, node) == [ok |-> TRUE, cur |-> cur, node |-> node, msg |-> ""]
PErr(cur, msg) == [ok |-> FALSE, cur |-> cur, node |-> <<>>, msg |-> msg]

\* Parser::peek, Parser::previous (Parser.current counts from 0)
parser_peek(toks, cur) == toks[cur + 1]
previous(toks, cur) == toks[cur]

\* Parser::is_at_end
is_at_end(toks, cur) == parser_peek(toks, cur) = "EOF"

\* Parser::check
check(toks, cur, kind) ==
    IF is_at_end(toks, cur) THEN FALSE ELSE parser_peek(toks, cur) = kind

\* Parser::advance: the cursor after the call
parser_advance(toks, cur) == IF is_at_end(toks, cur) THEN cur ELSE cur + 1

\* Parser::match_token: the cursor after the call (moved iff it matched)
match_token(toks, cur, kind) ==
    IF check(toks, cur, kind) THEN parser_advance(toks, cur) ELSE cur

\* Parser::consume
consume(toks, cur, kind, msg) ==
    IF check(toks, cur, kind)
    THEN POk(parser_advance(toks, cur), <<>>)
    ELSE PErr(cur, msg)

\* Parser::consume_identifier
consume_identifier(toks, cur) ==
    IF check(toks, cur, "Identifier")
    THEN POk(parser_advance(toks, cur), <<>>)
    ELSE PErr(cur, "Expected identifier")

TypeKinds == {"Int8", "Int16", "Int32", "Int64", "UInt8", "UInt16", "UInt32",
              "UInt64", "Float32", "Float64", "Bool", "Str", "Char", "Void"}

\* Parser::parse_type_name: advances unconditionally, then looks at the
\* token before the cursor
parse_type_name(toks, cur) ==
    LET c1 == parser_advance(toks, cur)
    IN IF previous(toks, c1) \in TypeKinds \cup {"Identifier"}
       THEN POk(c1, <<>>)
       ELSE PErr(c1, "Expected type name")

\* Parser::type_annotation
type_annotation(toks, cur) ==
    IF check(toks, cur, "LeftBracket")
    THEN LET el == parse_type_name(toks, cur + 1)
         IN IF ~el.ok THEN el
            ELSE LET c2 == match_token(toks, el.cur, "Semicolon")
                     sz == IF c2 # el.cur THEN consume_identifier(toks, c2)
                           ELSE POk(c2, <<>>)
                 IN IF ~sz.ok THEN sz
                    ELSE consume(toks, sz.cur, "RightBracket",
                                 "Expected ']' after array type")
    ELSE parse_type_name(toks, cur)

\* AST nodes
Literal(kind) == [k |-> kind]
Identifier == [k |-> "Identifier"]
BinaryOp(left, op, right) ==
    [k |-> "BinaryOp", left |-> left, op |-> op, right |-> right]
UnaryOp(op, operand) == [k |-> "UnaryOp", op |-> op, operand |-> operand]
OwnershipTransfer(expr) == [k |-> "OwnershipTransfer", expr |-> expr]
Borrow(expr, is_mutable) ==
    [k |-> "Borrow", expr |-> expr, is_mutable |-> is_mutable]
Call(callee, args) == [k |-> "Call", callee |-> callee, args |-> args]
ArrayAccess(array, index) ==
    [k |-> "ArrayAccess", array |-> array, index |-> index]
FieldAccess(object) == [k |-> "FieldAccess", object |-> object]
ModuleAccess == [k |-> "ModuleAccess"]
VariableDecl(is_mutable, has_type, initializer) ==
    [k |-> "VariableDecl", is_mutable |-> is_mutable,
     type_annotation |-> has_type, initializer |-> initializer]
Assignment(target, value) ==
    [k |-> "Assignment", target |-> target, value |-> value]
Return(value) == [k |-> "Return", value |-> value]
ExprStmt(expr) == [k |-> "ExprStmt", expr |-> expr]
StructLiteral(fields) == [k |-> "StructLiteral", fields |-> fields]
Block(statements) == [k |-> "Block", statements |-> statements]
PElseIf(condition, body) == [condition |-> condition, body |-> body]
PIf(condition, then_branch, else_if_branches, else_branch) ==
    [k |-> "If", condition |-> condition, then_branch |-> then_branch,
     else_if_branches |-> else_if_branches, else_branch |-> else_branch]

\* the operator kinds of the six binary levels, lowest precedence first:
\* logical_or, logical_and, equality, comparison, term, factor
LevelOps(lvl) ==
    CASE lvl = 1 -> {"Or"}
      [] lvl = 2 -> {"And"}
      [] lvl = 3 -> {"EqualEqual", "NotEqual"}
      [] lvl = 4 -> {"GreaterThan", "GreaterEqual", "LessThan", "LessEqual"}
      [] lvl = 5 -> {"Plus", "Minus"}
      [] lvl = 6 -> {"Star", "Slash", "Percent"}

UnaryOps == {"Not", "Minus", "ArrowLeft", "Ampersand", "AmpersandMut"}

\* the `?` of Rust: an Err is returned at once, an Ok value is passed on
Try(r, F(_)) == IF r.ok THEN F(r) ELSE r

RECURSIVE assignment(_, _), binary_level(_, _, _), binary_loop(_, _, _, _),
          unary(_, _), call(_, _), call_loop(_, _, _), args_loop(_, _, _),
          primary(_, _), struct_literal_fields(_, _, _)

\* Parser::expression
expression(toks, cur) == assignment(toks, cur)

\* Parser::assignment
assignment(toks, cur) ==
    Try(binary_level(toks, cur, 1), LAMBDA expr :
        IF check(toks, expr.cur, "Equal")
        THEN Try(assignment(toks, expr.cur + 1), LAMBDA value :
                 IF expr.node.k = "Identifier"
                 THEN POk(value.cur, BinaryOp(expr.node, "Equal", value.node))
                 ELSE PErr(value.cur, "Invalid assignment target"))
        ELSE expr)

\* the operand of a binary level: the next level, or unary below factor
binary_operand(toks, cur, lvl) ==
    IF lvl = 6 THEN unary(toks, cur) ELSE binary_level(toks, cur, lvl + 1)

\* logical_or .. factor: `let mut expr = operand()?; while match_token(op) ..`
binary_level(toks, cur, lvl) ==
    Try(binary_operand(toks, cur, lvl), LAMBDA expr :
        binary_loop(toks, expr.cur, lvl, expr.node))

binary_loop(toks, cur, lvl, expr) ==
    IF \E op \in LevelOps(lvl) : check(toks, cur, op)
    THEN Try(binary_operand(toks, cur + 1, lvl), LAMBDA right :
             binary_loop(toks, right.cur, lvl,
                         BinaryOp(expr, parser_peek(toks, cur), right.node)))
    ELSE POk(cur, expr)

logical_or(toks, cur) == binary_level(toks, cur, 1)
logical_and(toks, cur) == binary_level(toks, cur, 2)
equality(toks, cur) == binary_level(toks, cur, 3)
comparison(toks, cur) == binary_level(toks, cur, 4)
term(toks, cur) == binary_level(toks, cur, 5)
factor(toks, cur) == binary_level(toks, cur, 6)

\* the node Parser::unary builds for a prefix operator
unary_node(op, right) ==
    CASE op = "ArrowLeft" -> OwnershipTransfer(right)
      [] op = "Ampersand" -> Borrow(right, FALSE)
      [] op = "AmpersandMut" -> Borrow(right, TRUE)
      [] OTHER -> UnaryOp(op, right)

\* Parser::unary
unary(toks, cur) ==
    IF \E op \in UnaryOps : check(toks, cur, op)
    THEN Try(unary(toks, cur + 1), LAMBDA right :
             POk(right.cur, unary_node(parser_peek(toks, cur), right.node)))
    ELSE call(toks, cur)

\* Parser::call
call(toks, cur) ==
    Try(primary(toks, cur), LAMBDA expr :
        call_loop(toks, expr.cur, expr.node))

\* the `loop` of Parser::call
call_loop(toks, cur, expr) ==
    IF check(toks, cur, "LeftParen")
    THEN Try(IF check(toks, cur + 1, "RightParen")
             THEN POk(cur + 1, <<>>)
             ELSE args_loop(toks, cur + 1, <<>>), LAMBDA args :
         Try(consume(toks, args.cur, "RightParen",
                     "Expected ')' after arguments"), LAMBDA close :
             call_loop(toks, close.cur, Call(expr, args.node))))
    ELSE IF check(toks, cur, "LeftBracket")
    THEN Try(expression(toks, cur + 1), LAMBDA index :
         Try(consume(toks, index.cur, "RightBracket",
                     "Expected ']' after array index"), LAMBDA close :
             call_loop(toks, close.cur, ArrayAccess(expr, index.node))))
    ELSE IF check(toks, cur, "Dot")
    THEN Try(consume_identifier(toks, cur + 1), LAMBDA field :
             call_loop(toks, field.cur, FieldAccess(expr)))
    ELSE POk(cur, expr)

\* the argument list of a call: expression (`,` expression)*
args_loop(toks, cur, args) ==
    Try(expression(toks, cur), LAMBDA arg :
        IF check(toks, arg.cur, "Comma")
        THEN args_loop(toks, arg.cur + 1, Append(args, arg.node))
        ELSE POk(arg.cur, Append(args, arg.node)))

\* Parser::check_ahead
check_ahead(toks, cur, offset, kind) ==
    IF cur + offset >= Len(toks) THEN FALSE
    ELSE toks[cur + offset + 1] = kind

\* Parser::is_struct_literal_context, the cursor on the LeftBrace: the loop
\* returns in its first pass, on the token after the brace
is_struct_literal_context(toks, cur) ==
    IF ~(1 < Len(toks) - cur) THEN FALSE
    ELSE IF toks[cur + 2] = "RightBrace" THEN TRUE
    ELSE IF toks[cur + 2] = "Identifier"
    THEN IF 2 < Len(toks) - cur THEN toks[cur + 3] = "Colon" ELSE FALSE
    ELSE FALSE

\* what struct_literal_fields does after a field value
struct_literal_next(toks, cur, fields) ==
    IF ~check(toks, cur, "Comma") /\ ~check(toks, cur, "RightBrace")
    THEN PErr(cur, "Expected ',' or '}' after field")
    ELSE struct_literal_fields(toks, match_token(toks, cur, "Comma"), fields)

\* Parser::struct_literal_fields
struct_literal_fields(toks, cur, fields) ==
    IF ~check(toks, cur, "RightBrace") /\ ~is_at_end(toks, cur)
    THEN Try(consume_identifier(toks, cur), LAMBDA name :
         Try(consume(toks, name.cur, "Colon",
                     "Expected ':' after field name"), LAMBDA colon :
         Try(expression(toks, colon.cur), LAMBDA value :
             struct_literal_next(toks, value.cur,
                                 Append(fields, value.node)))))
    ELSE POk(cur, fields)

\* the struct-literal form of Parser::primary, the cursor on the LeftBrace
struct_literal(toks, cur) ==
    Try(struct_literal_fields(toks, cur + 1, <<>>), LAMBDA fields :
    Try(consume(toks, fields.cur, "RightBrace",
                "Expected '}' after struct literal fields"), LAMBDA close :
        POk(close.cur, StructLiteral(fields.node))))

\* Parser::primary
primary(toks, cur) ==
    IF check(toks, cur, "True") \/ check(toks, cur, "False")
    THEN POk(cur + 1, Literal("BooleanLiteral"))
    ELSE IF check(toks, cur, "Null") THEN POk(cur + 1, Identifier)
    ELSE IF check(toks, cur, "IntegerLiteral")
    THEN POk(cur + 1, Literal("IntegerLiteral"))
    ELSE IF check(toks, cur, "FloatLiteral")
    THEN POk(cur + 1, Literal("FloatLiteral"))
    ELSE IF check(toks, cur, "StringLiteral")
    THEN POk(cur + 1, Literal("StringLiteral"))
    ELSE IF check(toks, cur, "CharLiteral")
    THEN POk(cur + 1, Literal("CharLiteral"))
    ELSE IF check(toks, cur, "LeftParen")
    THEN Try(expression(toks, cur + 1), LAMBDA expr :
         Try(consume(toks, expr.cur, "RightParen",
                     "Expected ')' after expression"), LAMBDA close :
             POk(close.cur, expr.node)))
    ELSE IF check(toks, cur, "Identifier")
    THEN IF check(toks, cur + 1, "DoubleColon")
         THEN Try(consume_identifier(toks, cur + 2), LAMBDA item :
                  POk(item.cur, ModuleAccess))
         ELSE IF /\ check(toks, cur + 1, "LeftBrace")
                 /\ is_struct_literal_context(toks, cur + 1)
         THEN struct_literal(toks, cur + 1)
         ELSE POk(cur + 1, Identifier)
    ELSE PErr(cur, "Unexpected token")

\* Parser::variable_declaration
variable_declaration(toks, cur) ==
    Try(consume(toks, cur, "Let", "Expected 'let' keyword"), LAMBDA kw :
    Try(consume_identifier(toks, match_token(toks, kw.cur, "Mut")),
        LAMBDA name :
    Try(IF check(toks, name.cur, "Colon")
        THEN type_annotation(toks, name.cur + 1)
        ELSE POk(name.cur, <<>>), LAMBDA ty :
        IF check(toks, ty.cur, "Equal")
        THEN Try(expression(toks, ty.cur + 1), LAMBDA init :
                 POk(init.cur,
                     VariableDecl(check(toks, kw.cur, "Mut"),
                                  check(toks, name.cur, "Colon"),
                                  <<init.node>>)))
        ELSE POk(ty.cur, VariableDecl(check(toks, kw.cur, "Mut"),
                                      check(toks, name.cur, "Colon"),
                                      <<>>)))))

\* Parser::return_statement
return_statement(toks, cur) ==
    Try(consume(toks, cur, "Return", "Expected 'return' keyword"), LAMBDA kw :
        IF ~check(toks, kw.cur, "Semicolon")
           /\ ~check(toks, kw.cur, "RightBrace")
        THEN Try(expression(toks, kw.cur), LAMBDA value :
                 POk(value.cur, Return(<<value.node>>)))
        ELSE POk(kw.cur, Return(<<>>)))

\* Parser::expression_statement
expression_statement(toks, cur) ==
    Try(expression(toks, cur), LAMBDA expr :
        IF /\ expr.node.k = "BinaryOp"
           /\ expr.node.op = "Equal"
           /\ expr.node.left.k = "Identifier"
        THEN POk(expr.cur, Assignment(expr.node.left, expr.node.right))
        ELSE POk(match_token(toks, expr.cur, "Semicolon"),
                 ExprStmt(expr.node)))

RECURSIVE declaration(_, _), block_loop(_, _, _)
RECURSIVE else_if_loop(_, _, _, _, _)

\* the loop of Parser::block and the closing brace
block_loop(toks, cur, statements) ==
    IF ~check(toks, cur, "RightBrace") /\ ~is_at_end(toks, cur)
    THEN Try(declaration(toks, cur), LAMBDA stmt :
             block_loop(toks, stmt.cur, Append(statements, stmt.node)))
    ELSE Try(consume(toks, cur, "RightBrace", "Expected '}'"), LAMBDA close :
             POk(close.cur, statements))

\* Parser::block
block(toks, cur) ==
    Try(consume(toks, cur, "LeftBrace", "Expected '{'"), LAMBDA open :
        block_loop(toks, open.cur, <<>>))

\* Parser::if_statement from the else-if loop on: `while check(Else) &&
\* check_ahead(1, If)`, then the final else if there is one
else_if_loop(toks, cur, condition, then_branch, branches) ==
    IF check(toks, cur, "Else") /\ check_ahead(toks, cur, 1, "If")
    THEN Try(consume(toks, parser_advance(toks, cur), "If",
                     "Expected 'if' after 'else'"), LAMBDA kw :
         Try(expression(toks, kw.cur), LAMBDA else_if_condition :
         Try(block(toks, else_if_condition.cur), LAMBDA else_if_body :
             else_if_loop(toks, else_if_body.cur, condition, then_branch,
                          Append(branches,
                                 PElseIf(else_if_condition.node,
                                         else_if_body.node))))))
    ELSE IF check(toks, cur, "Else")
    THEN Try(block(toks, cur + 1), LAMBDA else_branch :
             POk(else_branch.cur,
                 PIf(condition, then_branch, branches, <<else_branch.node>>)))
    ELSE POk(cur, PIf(condition, then_branch, branches, <<>>))

\* Parser::if_statement
if_statement(toks, cur) ==
    Try(consume(toks, cur, "If", "Expected 'if' keyword"), LAMBDA kw :
    Try(expression(toks, kw.cur), LAMBDA condition :
    Try(block(toks, condition.cur), LAMBDA then_branch :
        else_if_loop(toks, then_branch.cur, condition.node,
                     then_branch.node, <<>>))))

\* Parser::statement
statement(toks, cur) ==
    IF check(toks, cur, "Return") THEN return_statement(toks, cur)
    ELSE IF check(toks, cur, "LeftBrace")
    THEN Try(block(toks, cur), LAMBDA statements :
             POk(statements.cur, Block(statements.node)))
    ELSE IF check(toks, cur, "If") THEN if_statement(toks, cur)
    ELSE IF check(toks, cur, "Let") THEN variable_declaration(toks, cur)
    ELSE expression_statement(toks, cur)

\* Parser::declaration
declaration(toks, cur) ==
    IF check(toks, cur, "Let") \/ check(toks, cur, "Mut")
    THEN variable_declaration(toks, cur)
    ELSE statement(toks, cur)

SyncKinds == {"Fn", "Let", "If", "While", "For", "Return"}

\* Parser::synchronize: the cursor where it stops, or a panic when
\* `previous()` indexes `tokens[current - 1]` with current = 0
RECURSIVE synchronize(_, _)
synchronize(toks, cur) ==
    IF is_at_end(toks, cur) THEN [panicked |-> FALSE, cur |-> cur]
    ELSE IF cur = 0 THEN [panicked |-> TRUE, cur |-> cur]
    ELSE IF previous(toks, cur) = "Semicolon"
    THEN [panicked |-> FALSE, cur |-> cur]
    ELSE IF parser_peek(toks, cur) \in SyncKinds
    THEN [panicked |-> FALSE, cur |-> cur]
    ELSE synchronize(toks, parser_advance(toks, cur))

\* Parser::new
ParserInit ==
    /\ ptoks \in TokenLists(MaxToks)
    /\ current = 0
    /\ perrors = 0
    /\ panic_mode = FALSE
    /\ had_error = FALSE
    /\ program = <<>>
    /\ ppc = "parse"
    \* the other components are not exercised and stay idle
    /\ dpc = "idle" /\ verbose = FALSE /\ hasOutput = FALSE
    /\ started = <<>> /\ dresult = "none"
    /\ llFile = FALSE /\ objFile = FALSE /\ stats = FALSE
    /\ debugFile = FALSE
    /\ input = <<>> /\ lpos = 0 /\ lline = 1 /\ lcol = 1
    /\ tokens = <<>> /\ lpc = "idle"
    /\ variables = <<>> /\ scope_level = 0 /\ errors = <<>>
    /\ opc = "idle" /\ oresult = <<>> /\ line = 0 /\ released = {}
    /\ tprogram = <<>> /\ tindex = 0 /\ tvariables = <<>>
    /\ functions = <<>> /\ current_function = <<>>
    /\ tpc = "idle" /\ tresult = <<>>
    /\ gprogram = <<>> /\ gindex = 0 /\ strings = <<>>
    /\ label_counter = 0 /\ gir = <<>> /\ gpc = "idle"

CapErrors(n) == IF n > MaxErrors THEN MaxErrors ELSE n

\* One pass through the `while !self.is_at_end()` loop of Parser::parse:
\* the synchronize of a pending panic mode, the declaration, and on Err
\* report_error (which records the error unless panic_mode is set, and sets
\* panic_mode and had_error) followed by synchronize (which clears it).
parse_pass ==
    /\ ppc = "parse"
    /\ ~is_at_end(ptoks, current)
    /\ LET pre == IF panic_mode THEN synchronize(ptoks, current)
                  ELSE [panicked |-> FALSE, cur |-> current]
           decl == declaration(ptoks, pre.cur)
           sync == synchronize(ptoks, decl.cur)
       IN IF pre.panicked
          THEN /\ ppc' = "panicked"
               /\ panic_mode' = FALSE
               /\ UNCHANGED <<current, perrors, had_error, program>>
          ELSE IF decl.ok
          THEN /\ program' = Append(program, decl.node)
               /\ current' = decl.cur
               /\ panic_mode' = FALSE
               /\ UNCHANGED <<perrors, had_error, ppc>>
          ELSE /\ perrors' = CapErrors(perrors + 1)
               /\ had_error' = TRUE
               /\ panic_mode' = FALSE
               /\ current' = sync.cur
               /\ ppc' = IF sync.panicked THEN "panicked" ELSE "parse"
               /\ UNCHANGED program
    /\ UNCHANGED ptoks
    /\ UNCHANGED <<dvars, lvars, ovars, tvars, gvars>>

\* the end of Parser::parse: Err(summary) if had_error, else Ok(program)
parse_return ==
    /\ ppc = "parse"
    /\ is_at_end(ptoks, current)
    /\ ppc' = IF had_error THEN "err" ELSE "ok"
    /\ UNCHANGED <<ptoks, current, perrors, panic_mode, had_error, program>>
    /\ UNCHANGED <<dvars, lvars, ovars, tvars, gvars>>

ParserNext ==
    \/ parse_pass
    \/ parse_return

ParserSpec ==
    /\ ParserInit
    /\ [][ParserNext]_vars

\* ---- the parser on if statements ----

MaxElseIf == 2    \* else-if clauses of one if statement

\* the conditions and the branch bodies the if statements are built from:
\* `true` and `x`; `{ }` and `{ 1 }`
Conds == {Literal("BooleanLiteral"), Identifier}
SimpleBodies == {<<>>, <<ExprStmt(Literal("IntegerLiteral"))>>}

ElseIfLists(bodies, max) ==
    UNION {[1..n -> {PElseIf(c, b) : c \in Conds, b \in bodies}] :
               n \in 0..max}

IfStmts(thens, bodies, max) ==
    {PIf(c, t, ei, el) :
         c \in Conds, t \in thens, ei \in ElseIfLists(bodies, max),
         el \in {<<>>} \cup {<<b>> : b \in bodies}}

\* an if with up to max else-if clauses, and an if whose then branch is
\* another if with its own else-if clause and else
IfShapes(max) ==
    IfStmts(SimpleBodies, SimpleBodies, max)
    \cup IfStmts({<<s>> : s \in IfStmts({<<>>}, {<<>>}, 1)}, {<<>>}, 1)

\* the tokens the lexer produces for the source text of a statement
RenderExpr(expr) ==
    CASE expr.k = "BooleanLiteral" -> <<"True">>
      [] expr.k = "IntegerLiteral" -> <<"IntegerLiteral">>
      [] expr.k = "Identifier" -> <<"Identifier">>

RECURSIVE RenderStmt(_), RenderStmts(_, _), RenderElseIfs(_, _)

RenderBlock(stmts) ==
    <<"LeftBrace">> \o RenderStmts(stmts, 1) \o <<"RightBrace">>

RenderStmts(stmts, i) ==
    IF i > Len(stmts) THEN <<>>
    ELSE RenderStmt(stmts[i]) \o RenderStmts(stmts, i + 1)

RenderElseIfs(branches, i) ==
    IF i > Len(branches) THEN <<>>
    ELSE <<"Else", "If">> \o RenderExpr(branches[i].condition)
         \o RenderBlock(branches[i].body) \o RenderElseIfs(branches, i + 1)

RenderStmt(stmt) ==
    IF stmt.k = "ExprStmt" THEN RenderExpr(stmt.expr)
    ELSE <<"If">> \o RenderExpr(stmt.condition)
         \o RenderBlock(stmt.then_branch)
         \o RenderElseIfs(stmt.else_if_branches, 1)
         \o (IF stmt.else_branch = <<>> THEN <<>>
             ELSE <<"Else">> \o RenderBlock(stmt.else_branch[1]))

\* Parser::new on the tokens of one if statement
IfInit ==
    /\ ptoks \in {Append(RenderStmt(s), "EOF") : s \in IfShapes(MaxElseIf)}
    /\ current = 0
    /\ perrors = 0
    /\ panic_mode = FALSE
    /\ had_error = FALSE
    /\ program = <<>>
    /\ ppc = "parse"
    \* the other components are not exercised and stay idle
    /\ dpc = "idle" /\ verbose = FALSE /\ hasOutput = FALSE
    /\ started = <<>> /\ dresult = "none"
    /\ llFile = FALSE /\ objFile = FALSE /\ stats = FALSE
    /\ debugFile = FALSE
    /\ input = <<>> /\ lpos = 0 /\ lline = 1 /\ lcol = 1
    /\ tokens = <<>> /\ lpc = "idle"
    /\ variables = <<>> /\ scope_level = 0 /\ errors = <<>>
    /\ opc = "idle" /\ oresult = <<>> /\ line = 0 /\ released = {}
    /\ tprogram = <<>> /\ tindex = 0 /\ tvariables = <<>>
    /\ functions = <<>> /\ current_function = <<>>
    /\ tpc = "idle" /\ tresult = <<>>
    /\ gprogram = <<>> /\ gindex = 0 /\ strings = <<>>
    /\ label_counter = 0 /\ gir = <<>> /\ gpc = "idle"

IfSpec ==
    /\ IfInit
    /\ [][ParserNext]_vars

C3_ParseProgress ==
    [][ppc = "parse" /\ ~is_at_end(ptoks, current)
         => ppc' # "panicked" /\ current' > current]_vars

\* the source text `&mut x`
MutBorrowSource == <<"&", "m", "u", "t", " ", "x">>

\* C11: when the parser is given the tokens the lexer produces for `&mut x`
\* it ends without error, and the one statement it returns is the Borrow
\* expression with is_mutable = true.
C11_MutBorrowParses ==
    ptoks = kinds(tokenize(MutBorrowSource)) /\ ppc # "parse"
    => /\ ppc = "ok"
       /\ program = <<ExprStmt(Borrow(Identifier, TRUE))>>

\* one statement of each kind followed by a semicolon, as <<tokens, the
\* statement the tokens before the semicolon parse to>>: `let x;`,
\* `x = 1;`, `return;` and `x;`
SemicolonCases ==
    {<<<<"Let", "Identifier", "Semicolon">>,
       VariableDecl(FALSE, FALSE, <<>>)>>,
     <<<<"Identifier", "Equal", "IntegerLiteral", "Semicolon">>,
       Assignment(Identifier, Literal("IntegerLiteral"))>>,
     <<<<"Return", "Semicolon">>, Return(<<>>)>>,
     <<<<"Identifier", "Semicolon">>, ExprStmt(Identifier)>>}

\* C20: a semicolon after a statement of any kind (variable declaration,
\* assignment, return, expression statement) is accepted: the parser ends
\* without error with the statement it returns without the semicolon.
C20_SemicolonAccepted ==
    \A c \in SemicolonCases :
        ptoks = Append(c[1], "EOF") /\ ppc # "parse"
        => ppc = "ok" /\ program = <<c[2]>>

(***************************************************************************)
(*                          OWNERSHIP CHECKER                              *)
(*                                                                         *)
(* The checker walks the statements of a program in order.  The model      *)
(* draws the program while it is walked: one action per simple statement   *)
(* (one call of check_statement), and for a statement with a body one      *)
(* action for its head (the condition, then enter_scope), the actions of   *)
(* the statements of the body, and one action for its end (exit_scope).    *)
(* An else-if arm of an If is the end of the previous arm followed by a    *)
(* head with the else-if condition, an else arm the end of the previous    *)
(* arm followed by a head without condition: check_statement runs exactly  *)
(* these calls for them.  A statement stands on its own source line; the   *)
(* column of a token is part of the expression drawn.                      *)
(***************************************************************************)

\* Bounds: the number of source lines walked (a simple statement, or the
\* condition of an if, else-if or while, stands on a line of its own), and
\* the depth of nested bodies.
MaxStmts == 3
MaxDepth == 2

\* the variables a program declares, and a callee that is never declared
VarNames == {"x", "y"}
Callee == "f"

\* Expr, with the token position the checker reads (the line is the line of
\* the statement)
Ident(name, column) == [k |-> "Identifier", name |-> name, column |-> column]
IntLit == [k |-> "IntegerLiteral"]
Move(expr, column) ==
    [k |-> "OwnershipTransfer", expr |-> expr, column |-> column]
BorrowOf(expr, is_mutable, column) ==
    [k |-> "Borrow", expr |-> expr, is_mutable |-> is_mutable,
     column |-> column]
Binary(left, right) == [k |-> "BinaryOp", left |-> left, right |-> right]
Unary(operand) == [k |-> "UnaryOp", operand |-> operand]
CallOf(callee, args) == [k |-> "Call", callee |-> callee, args |-> args]

\* the forms an operand on variable `name` takes, its first token at `column`:
\* x, <-x, &x, &mut x, -x
OperandForms(name, column) ==
    {Ident(name, column),
     Move(Ident(name, column + 1), column),
     BorrowOf(Ident(name, column + 1), FALSE, column),
     BorrowOf(Ident(name, column + 1), TRUE, column),
     Unary(Ident(name, column + 1))}

\* the expressions drawn: a literal, the operand forms of x, a read and a
\* move of y, a binary operation that moves x and then reads it, and a
\* call f(x)
Exprs ==
    {IntLit}
    \cup OperandForms("x", 1)
    \cup {Ident("y", 1), Move(Ident("y", 2), 1)}
    \cup {Binary(Move(Ident("x", 2), 1), Ident("x", 4))}
    \cup {CallOf(Ident(Callee, 1), <<Ident("x", 4)>>)}

\* OwnershipInfo; `tracked` is FALSE for a name that is not a key of the map
NoInfo ==
    [tracked |-> FALSE, is_moved |-> FALSE, move_location |-> <<>>,
     borrows |-> <<>>, scope_level |-> 0, is_mutable |-> FALSE]
NewInfo(level, is_mutable) ==
    [tracked |-> TRUE, is_moved |-> FALSE, move_location |-> <<>>,
     borrows |-> <<>>, scope_level |-> level, is_mutable |-> is_mutable]

\* BorrowInfo
BorrowInfo(borrow_type, level, ln, column) ==
    [borrow_type |-> borrow_type, scope_level |-> level,
     line |-> ln, column |-> column]

\* HashMap::get on OwnershipChecker.variables
Tracked(vs, name) == name \in VarNames /\ vs[name].tracked

\* a diagnostic: what it reports, the variable, the position, and for a use
\* of a moved variable the position of the move (else <<>>)
Diag(kind, name, ln, column, moved_at) ==
    [kind |-> kind, name |-> name, line |-> ln, column |-> column,
     moved_at |-> moved_at]

\* The checker's state while one statement is checked: the map, the scope
\* depth, the `errors` vector, and `failed`: the Err that a `?` is
\* propagating out of check (<<>> while there is none).
CheckerState(vs, level, errs) ==
    [variables |-> vs, scope_level |-> level, errors |-> errs,
     failed |-> <<>>]

\* move_variable without the test of the active borrows
move_variable_unchecked(st, name, ln, column) ==
    IF ~Tracked(st.variables, name) THEN st
    ELSE LET info == st.variables[name] IN
    IF info.is_moved
    THEN [st EXCEPT !.errors =
             Append(@, Diag("Cannot move already moved variable", name,
                            ln, column, <<>>))]
    ELSE [st EXCEPT !.variables[name].is_moved = TRUE,
                    !.variables[name].move_location = <<ln, column>>]

\* check_expression, Expr::OwnershipTransfer on an identifier
move_variable(st, name, ln, column) ==
    IF ~Tracked(st.variables, name) THEN st
    ELSE LET info == st.variables[name] IN
    IF info.is_moved
    THEN [st EXCEPT !.errors =
             Append(@, Diag("Cannot move already moved variable", name,
                            ln, column, <<>>))]
    ELSE IF info.borrows # <<>>
    THEN [st EXCEPT !.errors =
             Append(@, Diag("Cannot move borrowed variable", name,
                            ln, column, <<>>))]
    ELSE [st EXCEPT !.variables[name].is_moved = TRUE,
                    !.variables[name].move_location = <<ln, column>>]

\* add_borrow where a shared borrow is refused as soon as any borrow is active
add_borrow_exclusive(st, var_name, borrow_type, ln, column) ==
    IF ~Tracked(st.variables, var_name) THEN st
    ELSE LET info == st.variables[var_name] IN
    IF info.is_moved
    THEN [st EXCEPT !.failed =
             <<Diag("Cannot borrow moved variable", var_name,
                    ln, column, <<>>)>>]
    ELSE IF borrow_type = "Mutable" /\ info.borrows # <<>>
    THEN [st EXCEPT !.failed =
             <<Diag("Cannot create mutable borrow - already borrowed",
                    var_name, ln, column, <<>>)>>]
    ELSE IF borrow_type = "Mutable" /\ ~info.is_mutable
    THEN [st EXCEPT !.failed =
             <<Diag("Cannot create mutable borrow of immutable variable",
                    var_name, ln, column, <<>>)>>]
    ELSE IF borrow_type = "Immutable" /\ info.borrows # <<>>
    THEN [st EXCEPT !.failed =
             <<Diag("Cannot create immutable borrow - mutably borrowed",
                    var_name, ln, column, <<>>)>>]
    ELSE [st EXCEPT !.variables[var_name].borrows =
             Append(@, BorrowInfo(borrow_type, st.scope_level, ln, column))]

\* add_borrow where a mutable borrow only conflicts with a mutable borrow
add_borrow_lenient(st, var_name, borrow_type, ln, column) ==
    IF ~Tracked(st.variables, var_name) THEN st
    ELSE LET info == st.variables[var_name]
             mutably == \E i \in 1..Len(info.borrows) :
                            info.borrows[i].borrow_type = "Mutable"
         IN
    IF info.is_moved
    THEN [st EXCEPT !.failed =
             <<Diag("Cannot borrow moved variable", var_name,
                    ln, column, <<>>)>>]
    ELSE IF borrow_type = "Mutable" /\ mutably
    THEN [st EXCEPT !.failed =
             <<Diag("Cannot create mutable borrow - already borrowed",
                    var_name, ln, column, <<>>)>>]
    ELSE IF borrow_type = "Mutable" /\ ~info.is_mutable
    THEN [st EXCEPT !.failed =
             <<Diag("Cannot create mutable borrow of immutable variable",
                    var_name, ln, column, <<>>)>>]
    ELSE IF borrow_type = "Immutable" /\ mutably
    THEN [st EXCEPT !.failed =
             <<Diag("Cannot create immutable borrow - mutably borrowed",
                    var_name, ln, column, <<>>)>>]
    ELSE [st EXCEPT !.variables[var_name].borrows =
             Append(@, BorrowInfo(borrow_type, st.scope_level, ln, column))]

\* add_borrow without the test of the moved flag
add_borrow_of_moved(st, var_name, borrow_type, ln, column) ==
    IF ~Tracked(st.variables, var_name) THEN st
    ELSE LET info == st.variables[var_name] IN
    IF borrow_type = "Mutable" /\ info.borrows # <<>>
    THEN [st EXCEPT !.failed =
             <<Diag("Cannot create mutable borrow - already borrowed",
                    var_name, ln, column, <<>>)>>]
    ELSE IF borrow_type = "Mutable" /\ ~info.is_mutable
    THEN [st EXCEPT !.failed =
             <<Diag("Cannot create mutable borrow of immutable variable",
                    var_name, ln, column, <<>>)>>]
    ELSE IF /\ borrow_type = "Immutable"
            /\ \E i \in 1..Len(info.borrows) :
                   info.borrows[i].borrow_type = "Mutable"
    THEN [st EXCEPT !.failed =
             <<Diag("Cannot create immutable borrow - mutably borrowed",
                    var_name, ln, column, <<>>)>>]
    ELSE [st EXCEPT !.variables[var_name].borrows =
             Append(@, BorrowInfo(borrow_type, st.scope_level, ln, column))]

\* OwnershipChecker::add_borrow
add_borrow(st, var_name, borrow_type, ln, column) ==
    IF ~Tracked(st.variables, var_name) THEN st
    ELSE LET info == st.variables[var_name] IN
    IF info.is_moved
    THEN [st EXCEPT !.failed =
             <<Diag("Cannot borrow moved variable", var_name,
                    ln, column, <<>>)>>]
    ELSE IF borrow_type = "Mutable" /\ info.borrows # <<>>
    THEN [st EXCEPT !.failed =
             <<Diag("Cannot create mutable borrow - already borrowed",
                    var_name, ln, column, <<>>)>>]
    ELSE IF borrow_type = "Mutable" /\ ~info.is_mutable
    THEN [st EXCEPT !.failed =
             <<Diag("Cannot create mutable borrow of immutable variable",
                    var_name, ln, column, <<>>)>>]
    ELSE IF /\ borrow_type = "Immutable"
            /\ \E i \in 1..Len(info.borrows) :
                   info.borrows[i].borrow_type = "Mutable"
    THEN [st EXCEPT !.failed =
             <<Diag("Cannot create immutable borrow - mutably borrowed",
                    var_name, ln, column, <<>>)>>]
    ELSE [st EXCEPT !.variables[var_name].borrows =
             Append(@, BorrowInfo(borrow_type, st.scope_level, ln, column))]

\* check_expression, Expr::Identifier
use_identifier(st, name, ln, column) ==
    IF ~Tracked(st.variables, name) THEN st
    ELSE LET info == st.variables[name] IN
    IF info.is_moved /\ info.move_location # <<>>
    THEN [st EXCEPT !.errors =
             Append(@, Diag("Use of moved variable", name, ln, column,
                            info.move_location))]
    ELSE st

\* OwnershipChecker::check_expression; every `?` is the test of `failed`
RECURSIVE check_expression(_, _, _), check_args(_, _, _)
check_expression(st, expr, ln) ==
    IF st.failed # <<>> THEN st
    ELSE IF expr.k = "OwnershipTransfer"
    THEN IF expr.expr.k = "Identifier"
         THEN move_variable(st, expr.expr.name, ln, expr.column)
         ELSE st
    ELSE IF expr.k = "Borrow"
    THEN LET st1 == IF expr.expr.k = "Identifier"
                    THEN add_borrow(st, expr.expr.name,
                                    IF expr.is_mutable THEN "Mutable"
                                    ELSE "Immutable",
                                    ln, expr.column)
                    ELSE st
         IN check_expression(st1, expr.expr, ln)
    ELSE IF expr.k = "BinaryOp"
    THEN check_expression(check_expression(st, expr.left, ln), expr.right, ln)
    ELSE IF expr.k = "Call"
    THEN check_args(check_expression(st, expr.callee, ln), expr.args, ln)
    ELSE IF expr.k = "Identifier"
    THEN use_identifier(st, expr.name, ln, expr.column)
    ELSE st

check_args(st, args, ln) ==
    IF args = <<>> THEN st
    ELSE check_args(check_expression(st, Head(args), ln), Tail(args), ln)

\* check_statement, Stmt::VariableDecl; initializer is <<>> or <<expr>>
check_variable_decl(st, name, initializer, is_mutable, ln) ==
    LET st1 == IF initializer = <<>> THEN st
               ELSE check_expression(st, initializer[1], ln)
    IN IF st1.failed # <<>> THEN st1
       ELSE [st1 EXCEPT !.variables[name] =
                NewInfo(st1.scope_level, is_mutable)]

\* assign_target with the test of the moved flag only
assign_target_moved_only(st, name, ln, column) ==
    IF ~Tracked(st.variables, name) THEN st
    ELSE IF st.variables[name].is_moved
    THEN [st EXCEPT !.errors =
             Append(@, Diag("Cannot assign to moved variable", name,
                            ln, column, <<>>))]
    ELSE st

\* check_statement, Stmt::Assignment: the tests of an identifier target
assign_target(st, name, ln, column) ==
    IF ~Tracked(st.variables, name) THEN st
    ELSE LET info == st.variables[name]
             e1 == IF info.is_moved
                   THEN <<Diag("Cannot assign to moved variable", name,
                               ln, column, <<>>)>>
                   ELSE <<>>
             e2 == IF info.borrows # <<>>
                   THEN <<Diag("Cannot assign to borrowed variable", name,
                               ln, column, <<>>)>>
                   ELSE <<>>
         IN [st EXCEPT !.errors = @ \o e1 \o e2]

\* check_statement, Stmt::Assignment (the token is the `=`, after the target)
check_assignment(st, target, value, ln) ==
    LET st1 == check_expression(st, value, ln)
    IN IF st1.failed # <<>> THEN st1
       ELSE IF target.k = "Identifier"
       THEN assign_target(st1, target.name, ln, target.column + 1)
       ELSE st1

\* the `retain` of a Vec: the elements that satisfy Keep, in order
RECURSIVE retain_borrows(_, _)
retain_borrows(borrows, level) ==
    IF borrows = <<>> THEN <<>>
    ELSE IF Head(borrows).scope_level < level
    THEN <<Head(borrows)>> \o retain_borrows(Tail(borrows), level)
    ELSE retain_borrows(Tail(borrows), level)

\* exit_scope that drops the bindings of the scope but keeps every borrow
exit_scope_keeps_borrows(vs, level) ==
    [n \in VarNames |->
        IF vs[n].tracked /\ vs[n].scope_level < level THEN vs[n] ELSE NoInfo]

\* OwnershipChecker::exit_scope: the map after the two `retain`s
exit_scope(vs, level) ==
    [n \in VarNames |->
        IF vs[n].tracked /\ vs[n].scope_level < level
        THEN [vs[n] EXCEPT !.borrows = retain_borrows(@, level)]
        ELSE NoInfo]

\* OwnershipChecker::cleanup_scope
cleanup_scope(vs) ==
    [n \in VarNames |->
        IF vs[n].tracked THEN [vs[n] EXCEPT !.borrows = <<>>] ELSE vs[n]]

\* Result<(), String>: the messages joined into the Err
ResOk == [ok |-> TRUE, msgs |-> <<>>]
ResErr(msgs) == [ok |-> FALSE, msgs |-> msgs]

\* OwnershipChecker::new, before check is called
OwnershipInit ==
    /\ variables = [n \in VarNames |-> NoInfo]
    /\ scope_level = 0
    /\ errors = <<>>
    /\ opc = "check"
    /\ oresult = <<>>
    /\ line = 1
    /\ released = {}
    \* the other components are not exercised and stay idle
    /\ dpc = "idle" /\ verbose = FALSE /\ hasOutput = FALSE
    /\ started = <<>> /\ dresult = "none"
    /\ llFile = FALSE /\ objFile = FALSE /\ stats = FALSE
    /\ debugFile = FALSE
    /\ input = <<>> /\ lpos = 0 /\ lline = 1 /\ lcol = 1
    /\ tokens = <<>> /\ lpc = "idle"
    /\ ptoks = <<>> /\ current = 0 /\ perrors = 0
    /\ panic_mode = FALSE /\ had_error = FALSE
    /\ program = <<>> /\ ppc = "idle"
    /\ tprogram = <<>> /\ tindex = 0 /\ tvariables = <<>>
    /\ functions = <<>> /\ current_function = <<>>
    /\ tpc = "idle" /\ tresult = <<>>
    /\ gprogram = <<>> /\ gindex = 0 /\ strings = <<>>
    /\ label_counter = 0 /\ gir = <<>> /\ gpc = "idle"

here == CheckerState(variables, scope_level, errors)

\* The checker takes over the state a statement left; if a `?` propagated an
\* Err, check returns it at once: no cleanup, the collected errors are not
\* part of the returned message.
Commit(st) ==
    /\ variables' = st.variables
    /\ errors' = st.errors
    /\ released' = {}
    /\ IF st.failed # <<>>
       THEN opc' = "aborted" /\ oresult' = <<ResErr(st.failed)>>
       ELSE UNCHANGED <<opc, oresult>>

Walking == opc = "check" /\ line <= MaxStmts

\* Stmt::VariableDecl
stmt_variable_decl(name, initializer, is_mutable) ==
    /\ Walking
    /\ Commit(check_variable_decl(here, name, initializer, is_mutable, line))
    /\ line' = line + 1
    /\ UNCHANGED scope_level
    /\ UNCHANGED <<dvars, lvars, pvars, tvars, gvars>>

\* Stmt::Assignment with an identifier target
stmt_assignment(name, value) ==
    /\ Walking
    /\ Commit(check_assignment(here, Ident(name, 1), value, line))
    /\ line' = line + 1
    /\ UNCHANGED scope_level
    /\ UNCHANGED <<dvars, lvars, pvars, tvars, gvars>>

\* Stmt::ExprStmt, Stmt::Return (kind, with its expression), and likewise
\* Stmt::For and Stmt::Match: the `_ => {}` arm of check_statement
stmt_other(kind, expr) ==
    /\ Walking
    /\ Commit(here)
    /\ line' = line + 1
    /\ UNCHANGED scope_level
    /\ UNCHANGED <<dvars, lvars, pvars, tvars, gvars>>

\* OwnershipChecker::enter_scope
enter_scope == scope_level' = scope_level + 1

\* the head of Stmt::FunctionDecl or Stmt::Block, or the change to the else
\* arm of an If: enter_scope
begin_block ==
    /\ opc = "check"
    /\ scope_level < MaxDepth
    /\ Commit(here)
    /\ enter_scope
    /\ UNCHANGED line
    /\ UNCHANGED <<dvars, lvars, pvars, tvars, gvars>>

\* the head of Stmt::If or Stmt::While, or the change to an else-if arm of
\* an If: the condition, then enter_scope
begin_conditional(condition) ==
    /\ Walking
    /\ scope_level < MaxDepth
    /\ LET st == check_expression(here, condition, line)
       IN /\ Commit(st)
          /\ IF st.failed # <<>> THEN UNCHANGED scope_level ELSE enter_scope
    /\ line' = line + 1
    /\ UNCHANGED <<dvars, lvars, pvars, tvars, gvars>>

\* names that lose a borrow when the scope at `level` is left
Released(vs, level) ==
    {n \in VarNames : vs[n].tracked /\ vs[n].scope_level < level
                      /\ \E i \in 1..Len(vs[n].borrows) :
                            vs[n].borrows[i].scope_level >= level}

\* the end of a body or of an arm: exit_scope
end_block ==
    /\ opc = "check"
    /\ scope_level > 0
    /\ variables' = exit_scope(variables, scope_level)
    /\ scope_level' = scope_level - 1
    /\ released' = Released(variables, scope_level)
    /\ UNCHANGED <<errors, opc, oresult, line>>
    /\ UNCHANGED <<dvars, lvars, pvars, tvars, gvars>>

\* the end of OwnershipChecker::check after the last statement
check_return ==
    /\ opc = "check"
    /\ scope_level = 0
    /\ variables' = cleanup_scope(variables)
    /\ opc' = "returned"
    /\ oresult' = IF errors # <<>> THEN <<ResErr(errors)>> ELSE <<ResOk>>
    /\ released' = {}
    /\ UNCHANGED <<scope_level, errors, line>>
    /\ UNCHANGED <<dvars, lvars, pvars, tvars, gvars>>

Initializers == {<<>>} \cup {<<e>> : e \in Exprs}

OwnershipNext ==
    \/ \E name \in VarNames, initializer \in Initializers,
         is_mutable \in BOOLEAN :
            stmt_variable_decl(name, initializer, is_mutable)
    \/ \E name \in VarNames, value \in Exprs : stmt_assignment(name, value)
    \/ \E kind \in {"ExprStmt", "Return"}, expr \in Exprs :
            stmt_other(kind, expr)
    \/ begin_block
    \/ \E condition \in Exprs : begin_conditional(condition)
    \/ end_block
    \/ check_return

Spec ==
    /\ OwnershipInit
    /\ [][OwnershipNext]_vars

\* The walk of check over the programs
\*     let x = 1;  if C { S }          and
\*     let x = 1;  if C { } else { S }
\* (x mutable or not), C any expression, S any one statement: the
\* declaration at line 1, the head of the If at line 2, S at line 3 inside
\* the arm, and the exit of the arm, after which the walk stands at line 4
\* and depth 0.
declare_outer ==
    /\ line = 1
    /\ \E is_mutable \in BOOLEAN :
           stmt_variable_decl("x", <<IntLit>>, is_mutable)

if_head == line = 2 /\ \E condition \in Exprs : begin_conditional(condition)

arm_statement ==
    /\ line = 3 /\ scope_level = 1
    /\ \/ \E name \in VarNames, initializer \in Initializers,
            is_mutable \in BOOLEAN :
               stmt_variable_decl(name, initializer, is_mutable)
       \/ \E name \in VarNames, value \in Exprs : stmt_assignment(name, value)
       \/ \E expr \in Exprs : stmt_other("ExprStmt", expr)

then_arm_end == line = 3 /\ end_block

else_arm_begin == line = 3 /\ scope_level = 0 /\ begin_block

arm_end == line = 4 /\ end_block

IfEnded == opc = "check" /\ line = 4 /\ scope_level = 0

IfArmNext ==
    \/ declare_outer
    \/ if_head
    \/ arm_statement
    \/ then_arm_end
    \/ else_arm_begin
    \/ arm_end

IfArmSpec ==
    /\ OwnershipInit
    /\ [][IfArmNext]_vars

(***************************************************************************)
(*                             TYPE CHECKER                                *)
(***************************************************************************)

MaxProg == 2    \* top-level statements of a program
MaxBody == 1    \* statements of a function body

TNames == {"a", "b", "c"}
FnNames == {"f", "g"}

NumericTypes == {"i8", "i16", "i32", "i64", "u8", "u16", "u32", "u64",
                 "f32", "f64"}

\* Expr, as far as the type checker looks at it
TIntLit == [k |-> "IntegerLiteral"]
TBoolLit == [k |-> "BooleanLiteral"]
TIdent(name) == [k |-> "Identifier", name |-> name]
TBinary(left, op, right) ==
    [k |-> "BinaryOp", left |-> left, op |-> op, right |-> right]
TCall(name, args) ==
    [k |-> "Call", callee |-> TIdent(name), args |-> args]

\* Stmt; an Option is <<>> or <<value>>
TVariableDecl(name, annotation, initializer) ==
    [k |-> "VariableDecl", name |-> name, type_annotation |-> annotation,
     initializer |-> initializer, is_mutable |-> FALSE]
TFunctionDecl(name, params, return_type, body) ==
    [k |-> "FunctionDecl", name |-> name, params |-> params,
     return_type |-> return_type, body |-> body]
TReturn(value) == [k |-> "Return", value |-> value]
TExprStmt(expr) == [k |-> "ExprStmt", expr |-> expr]
TElseIf(condition, body) == [condition |-> condition, body |-> body]
TIf(condition, then_branch, else_if_branches, else_branch) ==
    [k |-> "If", condition |-> condition, then_branch |-> then_branch,
     else_if_branches |-> else_if_branches, else_branch |-> else_branch]

\* Result<String, String> of check_expression
TOk(ty) == [ok |-> TRUE, ty |-> ty, msg |-> ""]
TErr(msg) == [ok |-> FALSE, ty |-> "", msg |-> msg]

\* TypeChecker::is_numeric_type
is_numeric_type(t) == t \in NumericTypes

\* TypeChecker::is_valid_type
is_valid_type(t) == t \in NumericTypes \cup {"bool", "str", "char", "void"}

\* TypeChecker::check_numeric_types
check_numeric_types(left, right) ==
    IF ~is_numeric_type(left) \/ ~is_numeric_type(right)
    THEN TErr("Operator requires numeric types")
    ELSE IF left = right THEN TOk(left)
    ELSE IF left = "f64" \/ right = "f64" THEN TOk("f64")
    ELSE IF left = "f32" \/ right = "f32" THEN TOk("f32")
    ELSE IF left = "i64" \/ right = "i64" THEN TOk("i64")
    ELSE IF left = "i32" \/ right = "i32" THEN TOk("i32")
    ELSE IF left = "i16" \/ right = "i16" THEN TOk("i16")
    ELSE IF left = "i8" \/ right = "i8" THEN TOk("i8")
    ELSE IF left = "u64" \/ right = "u64" THEN TOk("u64")
    ELSE IF left = "u32" \/ right = "u32" THEN TOk("u32")
    ELSE IF left = "u16" \/ right = "u16" THEN TOk("u16")
    ELSE TOk("u8")

\* TypeChecker::check_bool_types
check_bool_types(left, right) ==
    IF left # "bool" \/ right # "bool"
    THEN TErr("Operator requires bool types")
    ELSE TOk("bool")

\* check_expression, Expr::BinaryOp, after the two `?` on the operands
tc_binary_op(op, left, right) ==
    IF ~left.ok THEN left
    ELSE IF ~right.ok THEN right
    ELSE IF op \in {"Plus", "Minus", "Star", "Slash"}
    THEN check_numeric_types(left.ty, right.ty)
    ELSE IF op \in {"EqualEqual", "NotEqual", "LessThan", "LessEqual",
                    "GreaterThan", "GreaterEqual"}
    THEN TOk("bool")
    ELSE IF op \in {"And", "Or"} THEN check_bool_types(left.ty, right.ty)
    ELSE IF op = "Equal" THEN TOk("void")
    ELSE TErr("Unknown operator")

\* check_expression, Expr::Call of println / print, after the argument
tc_print_arg(arg) ==
    IF ~arg.ok THEN arg
    ELSE IF arg.ty \notin {"str", "bool", "char"} /\ ~is_numeric_type(arg.ty)
    THEN TErr("Function expects str or numeric type")
    ELSE TOk("void")

\* check_expression, Expr::Call: one step of the loop over args.zip(params)
tc_arg(arg, param_type, rest) ==
    IF ~arg.ok THEN arg
    ELSE IF arg.ty # param_type THEN TErr("Type mismatch for argument")
    ELSE rest

RECURSIVE tc_check_expression(_, _, _), tc_check_args(_, _, _, _, _)

\* TypeChecker::check_expression
tc_check_expression(vs, fns, expr) ==
    IF expr.k = "IntegerLiteral" THEN TOk("i32")
    ELSE IF expr.k = "BooleanLiteral" THEN TOk("bool")
    ELSE IF expr.k = "Identifier"
    THEN IF vs[expr.name] = <<>> THEN TErr("Undefined variable")
         ELSE TOk(vs[expr.name][1].name)
    ELSE IF expr.k = "BinaryOp"
    THEN tc_binary_op(expr.op, tc_check_expression(vs, fns, expr.left),
                      tc_check_expression(vs, fns, expr.right))
    ELSE IF expr.k = "Call"
    THEN IF expr.callee.k # "Identifier"
         THEN TErr("Can only call named functions")
         ELSE IF expr.callee.name \in {"println", "print"}
         THEN IF Len(expr.args) # 1 THEN TErr("Function expects 1 argument")
              ELSE tc_print_arg(tc_check_expression(vs, fns, expr.args[1]))
         ELSE IF expr.callee.name \notin DOMAIN fns
                 \/ fns[expr.callee.name] = <<>>
         THEN TErr("Undefined function")
         ELSE IF Len(expr.args) # Len(fns[expr.callee.name][1].params)
         THEN TErr("Function expects another number of arguments")
         ELSE tc_check_args(vs, fns, expr.args, fns[expr.callee.name][1], 1)
    ELSE TErr("Unknown expression")

\* the loop over args.zip(params), then Ok(return_type)
tc_check_args(vs, fns, args, sig, i) ==
    IF i > Len(args) THEN TOk(sig.return_type)
    ELSE tc_arg(tc_check_expression(vs, fns, args[i]), sig.params[i].type,
                tc_check_args(vs, fns, args, sig, i + 1))

\* the fields of TypeChecker a statement works on; err is <<>> or <<message>>
TcState(vs, fns, cur) ==
    [variables |-> vs, functions |-> fns, current_function |-> cur,
     err |-> <<>>]

Fail(st, msg) == [st EXCEPT !.err = <<msg>>]

\* check_statement, Stmt::VariableDecl: var_type is the Result of the first
\* part (annotation, else initializer, else "i32"), init the Result of the
\* initializer (Ok when there is none)
tc_variable_decl(st, stmt, var_type, init) ==
    IF ~var_type.ok THEN Fail(st, var_type.msg)
    ELSE IF ~init.ok THEN Fail(st, init.msg)
    ELSE IF stmt.initializer # <<>> /\ var_type.ty # init.ty
    THEN Fail(st, "Type mismatch in variable declaration")
    ELSE [st EXCEPT !.variables[stmt.name] =
             <<[name |-> var_type.ty, is_mutable |-> stmt.is_mutable]>>]

\* check_statement, Stmt::ExprStmt, after the expression
tc_expr_stmt(st, r) == IF ~r.ok THEN Fail(st, r.msg) ELSE st

\* check_statement, Stmt::Return, after `?` on the value
tc_return(st, return_type) ==
    IF ~return_type.ok THEN Fail(st, return_type.msg)
    ELSE LET current_fn == st.current_function[1]
             expected_return ==
                 IF st.functions[current_fn] # <<>>
                 THEN st.functions[current_fn][1].return_type
                 ELSE "void"
         IN IF return_type.ty # expected_return /\ expected_return # "void"
            THEN Fail(st, "Return type mismatch")
            ELSE st

\* check_statement, Stmt::FunctionDecl, after the loop over the body: the
\* saved variables and current_function are put back and the signature is
\* inserted; an Err of the body is returned as it is
tc_function_end(st, stmt, inner) ==
    IF inner.err # <<>> THEN inner
    ELSE [inner EXCEPT !.variables = st.variables,
                       !.current_function = st.current_function,
                       !.functions[stmt.name] =
                           <<[params |-> stmt.params,
                              return_type |-> stmt.return_type]>>]

\* `for (param_name, param_type) in params { self.variables.insert(..) }`
RECURSIVE param_variables(_, _, _)
param_variables(params, i, vs) ==
    IF i > Len(params) THEN vs
    ELSE param_variables(params, i + 1,
             [vs EXCEPT ![params[i].name] =
                 <<[name |-> params[i].type, is_mutable |-> FALSE]>>])

\* the state in which the body of a FunctionDecl is checked
tc_function_begin(st, stmt) ==
    [st EXCEPT !.current_function = <<stmt.name>>,
               !.variables = param_variables(stmt.params, 1,
                                             [n \in TNames |-> <<>>])]

RECURSIVE tc_check_statement(_, _), tc_check_all(_, _, _)

\* check_statement, Stmt::If, after the condition: the pattern binds
\* condition, then_branch and else_branch, and `..` leaves
\* else_if_branches out
tc_if(st, stmt, cond_type) ==
    IF ~cond_type.ok THEN Fail(st, cond_type.msg)
    ELSE IF cond_type.ty # "bool" THEN Fail(st, "If condition must be bool")
    ELSE tc_check_all(
             tc_check_all(st, stmt.then_branch, 1),
             IF stmt.else_branch # <<>> THEN stmt.else_branch[1] ELSE <<>>,
             1)

\* TypeChecker::check_statement
tc_check_statement(st, stmt) ==
    IF stmt.k = "VariableDecl"
    THEN tc_variable_decl(
             st, stmt,
             IF stmt.type_annotation # <<>>
             THEN IF ~is_valid_type(stmt.type_annotation[1])
                  THEN TErr("Invalid type")
                  ELSE TOk(stmt.type_annotation[1])
             ELSE IF stmt.initializer # <<>>
             THEN tc_check_expression(st.variables, st.functions,
                                      stmt.initializer[1])
             ELSE TOk("i32"),
             IF stmt.initializer # <<>>
             THEN tc_check_expression(st.variables, st.functions,
                                      stmt.initializer[1])
             ELSE TOk(""))
    ELSE IF stmt.k = "FunctionDecl"
    THEN IF st.functions[stmt.name] # <<>>
         THEN Fail(st, "Function already defined")
         ELSE tc_function_end(
                  st, stmt,
                  tc_check_all(tc_function_begin(st, stmt), stmt.body, 1))
    ELSE IF stmt.k = "Return"
    THEN IF st.current_function = <<>>
         THEN Fail(st, "Return statement outside function")
         ELSE tc_return(
                  st,
                  IF stmt.value # <<>>
                  THEN tc_check_expression(st.variables, st.functions,
                                           stmt.value[1])
                  ELSE TOk("void"))
    ELSE IF stmt.k = "ExprStmt"
    THEN tc_expr_stmt(st, tc_check_expression(st.variables, st.functions,
                                              stmt.expr))
    ELSE IF stmt.k = "If"
    THEN tc_if(st, stmt, tc_check_expression(st.variables, st.functions,
                                             stmt.condition))
    ELSE st

\* `for stmt in body { self.check_statement(stmt)?; }`
tc_check_all(st, stmts, i) ==
    IF i > Len(stmts) \/ st.err # <<>> THEN st
    ELSE tc_check_all(tc_check_statement(st, stmts[i]), stmts, i + 1)

\* the statements drawn for a function body
BodyStmts ==
    {TReturn(<<>>), TReturn(<<TBoolLit>>), TReturn(<<TIntLit>>)}
    \cup {TExprStmt(TCall(n, <<>>)) : n \in FnNames}

Bodies == UNION {[1..n -> BodyStmts] : n \in 0..MaxBody}

\* the function declarations drawn: no parameters, i32 or void
FnDecls ==
    {TFunctionDecl(n, <<>>, rt, body) :
         n \in FnNames, rt \in {"i32", "void"}, body \in Bodies}

\* the other top-level statements drawn: a declaration that checks, one
\* whose initializer has another type than its annotation, a call, a return
SimpleStmts ==
    {TVariableDecl("c", <<>>, <<TIntLit>>),
     TVariableDecl("c", <<"i32">>, <<TBoolLit>>),
     TExprStmt(TCall("f", <<>>)),
     TReturn(<<>>)}

ArithOps == {"Plus", "Minus", "Star", "Slash"}

\* `let a: l` `let b: r` `let c = a op b`
ArithProgram(l, r, op) ==
    <<TVariableDecl("a", <<l>>, <<>>),
      TVariableDecl("b", <<r>>, <<>>),
      TVariableDecl("c", <<>>, <<TBinary(TIdent("a"), op, TIdent("b"))>>)>>

ArithPrograms ==
    {ArithProgram(l, r, op) :
         l \in NumericTypes, r \in NumericTypes, op \in ArithOps}

\* an if statement alone: the conditions are a bool and an i32, a body is
\* empty or reads the undefined variable a
IfConds == {TBoolLit, TIntLit}
IfBodies == {<<>>, <<TExprStmt(TIdent("a"))>>}
IfPrograms ==
    {<<TIf(c, t, ei, el)>> :
         c \in IfConds, t \in IfBodies,
         ei \in {<<>>} \cup {<<TElseIf(ec, eb)>> :
                                 ec \in IfConds, eb \in IfBodies},
         el \in {<<>>} \cup {<<b>> : b \in IfBodies}}

Programs ==
    UNION {[1..n -> FnDecls \cup SimpleStmts] : n \in 0..MaxProg}
    \cup ArithPrograms
    \cup IfPrograms

\* TypeChecker::new and the program given to check
TypeInit ==
    /\ tprogram \in Programs
    /\ tindex = 0
    /\ tvariables = [n \in TNames |-> <<>>]
    /\ functions = [n \in FnNames |-> <<>>]
    /\ current_function = <<>>
    /\ tpc = "check"
    /\ tresult = <<>>
    \* the other components are not exercised and stay idle
    /\ dpc = "idle" /\ verbose = FALSE /\ hasOutput = FALSE
    /\ started = <<>> /\ dresult = "none"
    /\ llFile = FALSE /\ objFile = FALSE /\ stats = FALSE
    /\ debugFile = FALSE
    /\ input = <<>> /\ lpos = 0 /\ lline = 1 /\ lcol = 1
    /\ tokens = <<>> /\ lpc = "idle"
    /\ ptoks = <<>> /\ current = 0 /\ perrors = 0
    /\ panic_mode = FALSE /\ had_error = FALSE
    /\ program = <<>> /\ ppc = "idle"
    /\ variables = <<>> /\ scope_level = 0 /\ errors = <<>>
    /\ opc = "idle" /\ oresult = <<>> /\ line = 0 /\ released = {}
    /\ gprogram = <<>> /\ gindex = 0 /\ strings = <<>>
    /\ label_counter = 0 /\ gir = <<>> /\ gpc = "idle"

\* one pass through `for stmt in &program.statements` of TypeChecker::check:
\* check_statement, and on Err the `?` returns it
check_next_statement ==
    /\ tpc = "check"
    /\ tindex < Len(tprogram)
    /\ LET st == tc_check_statement(
                     TcState(tvariables, functions, current_function),
                     tprogram[tindex + 1])
       IN /\ tvariables' = st.variables
          /\ functions' = st.functions
          /\ current_function' = st.current_function
          /\ IF st.err # <<>>
             THEN tpc' = "returned" /\ tresult' = <<ResErr(st.err)>>
             ELSE UNCHANGED <<tpc, tresult>>
    /\ tindex' = tindex + 1
    /\ UNCHANGED tprogram
    /\ UNCHANGED <<dvars, lvars, pvars, ovars, gvars>>

\* the end of TypeChecker::check: Ok(())
check_ok ==
    /\ tpc = "check"
    /\ tindex = Len(tprogram)
    /\ tpc' = "returned"
    /\ tresult' = <<ResOk>>
    /\ UNCHANGED <<tprogram, tindex, tvariables, functions, current_function>>
    /\ UNCHANGED <<dvars, lvars, pvars, ovars, gvars>>

TypeNext ==
    \/ check_next_statement
    \/ check_ok

TypeSpec ==
    /\ TypeInit
    /\ [][TypeNext]_vars

(***************************************************************************)
(* Code generator: src/src/codegen/codegen.rs and src/src/codegen/ir.rs    *)
(***************************************************************************)

MaxNest == 2      \* depth to which if, while and for are nested

StrValues == {"a", "b"}

\* ast::expr::Expr, the two kinds the lowered programs use
GBool == [kind |-> "BooleanLiteral"]
GStr(value) == [kind |-> "StringLiteral", value |-> value]

\* ast::stmt::Stmt; an Option is <<>> or <<v>>
GExprStmt(expr) == [kind |-> "ExprStmt", expr |-> expr]
GReturn == [kind |-> "Return", value |-> <<>>]
ElseIfBranch(condition, body) == [condition |-> condition, body |-> body]
GIf(condition, then_branch, else_if_branches, else_branch) ==
    [kind |-> "If", condition |-> condition, then_branch |-> then_branch,
     else_if_branches |-> else_if_branches, else_branch |-> else_branch]
GWhile(condition, body) ==
    [kind |-> "While", condition |-> condition, body |-> body]
GFor(init, condition, increment, body) ==
    [kind |-> "For", init |-> init, condition |-> condition,
     increment |-> increment, body |-> body]
GFunctionDecl(name, return_type, body) ==
    [kind |-> "FunctionDecl", name |-> name, return_type |-> return_type,
     body |-> body]
\* an arm of a Match is the pair <<pattern, body>>
GMatch(value, arms, default) ==
    [kind |-> "Match", value |-> value, arms |-> arms, default |-> default]

\* the lines of LLIR text: `kind.n:`, `br` with the labels it names, `ret`,
\* `icmp` and the `getelementptr` of the string constant @.str.idx
Label(kind, n) == [op |-> "label", name |-> <<kind, n>>]
Br(targets) == [op |-> "br", targets |-> targets]
Ret == [op |-> "ret"]
Icmp == [op |-> "icmp"]
Gep(idx) == [op |-> "getelementptr", idx |-> idx]

\* ---- StringGenerator (ir.rs) ----

\* add_string: push unless an equal string is in the table
add_string(strs, value) ==
    IF \E i \in 1..Len(strs) : strs[i] = value THEN strs
    ELSE Append(strs, value)

\* get_string_literal: Ok(position of the value) as <<i>>, Err as <<>>
get_string_literal(strs, value) ==
    IF \E i \in 1..Len(strs) : strs[i] = value
    THEN <<(CHOOSE i \in 1..Len(strs) :
               /\ strs[i] = value
               /\ \A j \in 1..(i - 1) : strs[j] # value) - 1>>
    ELSE <<>>

collect_strings_from_expr(strs, expr) ==
    IF expr.kind = "StringLiteral" THEN add_string(strs, expr.value)
    ELSE strs

collect_strings_from_option(strs, opt) ==
    IF opt # <<>> THEN collect_strings_from_expr(strs, opt[1]) ELSE strs

RECURSIVE collect_strings(_, _)
RECURSIVE collect_strings_all(_, _, _)
RECURSIVE collect_strings_arms(_, _, _)

\* `for s in stmts { self.collect_strings(s) }`
collect_strings_all(strs, stmts, i) ==
    IF i > Len(stmts) THEN strs
    ELSE collect_strings_all(collect_strings(strs, stmts[i]), stmts, i + 1)

\* the If arm binds condition, then_branch and else_branch, and `..`
\* leaves else_if_branches out
collect_strings_if(strs, stmt) ==
    IF stmt.else_branch # <<>>
    THEN collect_strings_all(
             collect_strings_all(
                 collect_strings_from_expr(strs, stmt.condition),
                 stmt.then_branch, 1),
             stmt.else_branch[1], 1)
    ELSE collect_strings_all(
             collect_strings_from_expr(strs, stmt.condition),
             stmt.then_branch, 1)

collect_strings_for(strs, stmt) ==
    collect_strings_all(
        collect_strings_from_option(
            collect_strings_from_option(
                IF stmt.init # <<>>
                THEN collect_strings(strs, stmt.init[1]) ELSE strs,
                stmt.condition),
            stmt.increment),
        stmt.body, 1)

\* `for (pattern, body) in arms { .. }`
collect_strings_arms(strs, arms, i) ==
    IF i > Len(arms) THEN strs
    ELSE collect_strings_arms(
             collect_strings_all(
                 collect_strings_from_expr(strs, arms[i][1]), arms[i][2], 1),
             arms, i + 1)

collect_strings_match(strs, stmt) ==
    IF stmt.default # <<>>
    THEN collect_strings_all(
             collect_strings_arms(
                 collect_strings_from_expr(strs, stmt.value), stmt.arms, 1),
             stmt.default[1], 1)
    ELSE collect_strings_arms(
             collect_strings_from_expr(strs, stmt.value), stmt.arms, 1)

collect_strings(strs, stmt) ==
    CASE stmt.kind = "ExprStmt" ->
             collect_strings_from_expr(strs, stmt.expr)
      [] stmt.kind = "Return" ->
             collect_strings_from_option(strs, stmt.value)
      [] stmt.kind = "If" -> collect_strings_if(strs, stmt)
      [] stmt.kind = "While" ->
             collect_strings_all(
                 collect_strings_from_expr(strs, stmt.condition),
                 stmt.body, 1)
      [] stmt.kind = "For" -> collect_strings_for(strs, stmt)
      [] stmt.kind = "Match" -> collect_strings_match(strs, stmt)
      [] stmt.kind = "FunctionDecl" ->
             collect_strings_all(strs, stmt.body, 1)
      [] OTHER -> strs

generate_strings(strs, stmt) == collect_strings(strs, stmt)

\* ---- CodeGenerator (codegen.rs) ----

\* the text of the function being lowered and the label counter
GenState(ir, counter) == [ir |-> ir, label_counter |-> counter]
push(g, ins) == [g EXCEPT !.ir = Append(@, ins)]
push_all(g, inss) == [g EXCEPT !.ir = @ \o inss]

\* fresh_label, n times: the labels drawn are the counter before, +1, ...
fresh_label(g, n) == [g EXCEPT !.label_counter = @ + n]

\* generate_string_literal: on Err nothing is emitted ("null" is returned)
generate_string_literal(g, strs, idx) ==
    IF idx = <<>> THEN g ELSE push(g, Gep(idx[1]))

generate_expression(g, strs, expr) ==
    IF expr.kind = "StringLiteral"
    THEN generate_string_literal(g, strs,
                                 get_string_literal(strs, expr.value))
    ELSE g

generate_option(g, strs, opt) ==
    IF opt # <<>> THEN generate_expression(g, strs, opt[1]) ELSE g

\* `if matches!(stmt, Stmt::Return { .. }) { terminated = true }` over a
\* branch: only the statements of the branch itself are looked at
terminated(stmts) == \E i \in 1..Len(stmts) : stmts[i].kind = "Return"

\* alt_kind where a final else is looked at before the else-if branches
alt_kind_else_first(more_else_ifs, has_else) ==
    IF has_else THEN "else" ELSE IF more_else_ifs THEN "elseif" ELSE "end"

\* the prefix of the label the conditional branch falls to
alt_kind(more_else_ifs, has_else) ==
    IF more_else_ifs THEN "elseif" ELSE IF has_else THEN "else" ELSE "end"

RECURSIVE generate_function_statement(_, _, _)
RECURSIVE generate_statements(_, _, _, _)
RECURSIVE generate_else_ifs(_, _, _, _, _, _)

\* `for stmt in body { self.generate_function_statement(stmt, ir) }`
generate_statements(g, strs, stmts, i) ==
    IF i > Len(stmts) THEN g
    ELSE generate_statements(
             generate_function_statement(g, strs, stmts[i]),
             strs, stmts, i + 1)

\* a branch of an If, and `br label %end.N` unless it was terminated
generate_branch(g, strs, stmts, end_label) ==
    IF terminated(stmts) THEN generate_statements(g, strs, stmts, 1)
    ELSE push(generate_statements(g, strs, stmts, 1),
              Br(<<<<"end", end_label>>>>))

\* the end of the If arm: the final else, or the extra end block after
\* else-if branches without an else, and the end label
generate_if_tail(g, strs, stmt, current_label, end_label) ==
    push(IF stmt.else_branch # <<>>
         THEN generate_branch(push(g, Label("else", current_label)), strs,
                              stmt.else_branch[1], end_label)
         ELSE IF stmt.else_if_branches = <<>> THEN g
         ELSE push_all(g, <<Label("end", current_label),
                            Br(<<<<"end", end_label>>>>)>>),
         Label("end", end_label))

\* one else-if branch from its conditional branch on
generate_else_if_body(g, strs, stmt, i, then_label, next_label, end_label) ==
    generate_else_ifs(
        generate_branch(
            push_all(g, <<Br(<<<<"then", then_label>>,
                               <<alt_kind(i < Len(stmt.else_if_branches),
                                          stmt.else_branch # <<>>),
                                 next_label>>>>),
                          Label("then", then_label)>>),
            strs, stmt.else_if_branches[i].body, end_label),
        strs, stmt, i + 1, next_label, end_label)

\* one else-if branch after its condition: the labels it draws
generate_else_if(g, strs, stmt, i, end_label) ==
    IF i < Len(stmt.else_if_branches) \/ stmt.else_branch # <<>>
    THEN generate_else_if_body(fresh_label(g, 2), strs, stmt, i,
                               g.label_counter, g.label_counter + 1,
                               end_label)
    ELSE generate_else_if_body(fresh_label(g, 1), strs, stmt, i,
                               g.label_counter, end_label, end_label)

\* `for (i, else_if_branch) in else_if_branches.iter().enumerate()` and
\* what follows the loop
generate_else_ifs(g, strs, stmt, i, current_label, end_label) ==
    IF i > Len(stmt.else_if_branches)
    THEN generate_if_tail(g, strs, stmt, current_label, end_label)
    ELSE generate_else_if(
             push(generate_expression(
                      push(g, Label("elseif", current_label)), strs,
                      stmt.else_if_branches[i].condition),
                  Icmp),
             strs, stmt, i, end_label)

\* the If arm from its conditional branch on
generate_if_from(g, strs, stmt, then_label, end_label, first_alt_label) ==
    generate_else_ifs(
        generate_branch(
            push_all(g, <<Br(<<<<"then", then_label>>,
                               <<alt_kind(stmt.else_if_branches # <<>>,
                                          stmt.else_branch # <<>>),
                                 first_alt_label>>>>),
                          Label("then", then_label)>>),
            strs, stmt.then_branch, end_label),
        strs, stmt, 1, first_alt_label, end_label)

\* the If arm after its condition: then_label, end_label, first_alt_label
generate_if_labels(g, strs, stmt) ==
    IF stmt.else_if_branches # <<>> \/ stmt.else_branch # <<>>
    THEN generate_if_from(fresh_label(g, 3), strs, stmt, g.label_counter,
                          g.label_counter + 1, g.label_counter + 2)
    ELSE generate_if_from(fresh_label(g, 2), strs, stmt, g.label_counter,
                          g.label_counter + 1, g.label_counter + 1)

generate_if(g, strs, stmt) ==
    generate_if_labels(
        push(generate_expression(g, strs, stmt.condition), Icmp),
        strs, stmt)

\* the While arm after its three labels are drawn
generate_while_from(g, strs, stmt, cond_label, body_label, end_label) ==
    push_all(
        generate_statements(
            push_all(
                generate_expression(
                    push_all(g, <<Br(<<<<"cond", cond_label>>>>),
                                  Label("cond", cond_label)>>),
                    strs, stmt.condition),
                <<Icmp,
                  Br(<<<<"body", body_label>>, <<"end", end_label>>>>),
                  Label("body", body_label)>>),
            strs, stmt.body, 1),
        <<Br(<<<<"cond", cond_label>>>>), Label("end", end_label)>>)

generate_while(g, strs, stmt) ==
    generate_while_from(fresh_label(g, 3), strs, stmt, g.label_counter,
                        g.label_counter + 1, g.label_counter + 2)

\* the condition of a For and the branch out of its cond block
generate_for_condition(g, strs, stmt, body_label, end_label) ==
    IF stmt.condition # <<>>
    THEN push_all(generate_expression(g, strs, stmt.condition[1]),
                  <<Icmp,
                    Br(<<<<"body", body_label>>, <<"end", end_label>>>>)>>)
    ELSE push(g, Br(<<<<"body", body_label>>>>))

\* the For arm after its four labels are drawn (the third is not used)
generate_for_from(g, strs, stmt, cond_label, body_label, end_label) ==
    push_all(
        generate_option(
            generate_statements(
                push(generate_for_condition(
                         push_all(g, <<Br(<<<<"cond", cond_label>>>>),
                                       Label("cond", cond_label)>>),
                         strs, stmt, body_label, end_label),
                     Label("body", body_label)),
                strs, stmt.body, 1),
            strs, stmt.increment),
        <<Br(<<<<"cond", cond_label>>>>), Label("end", end_label)>>)

generate_for_labels(g, strs, stmt) ==
    generate_for_from(fresh_label(g, 4), strs, stmt, g.label_counter,
                      g.label_counter + 1, g.label_counter + 3)

generate_for(g, strs, stmt) ==
    generate_for_labels(
        IF stmt.init # <<>>
        THEN generate_function_statement(g, strs, stmt.init[1]) ELSE g,
        strs, stmt)

generate_function_statement(g, strs, stmt) ==
    CASE stmt.kind = "Return" ->
             push(generate_option(g, strs, stmt.value), Ret)
      [] stmt.kind = "If" -> generate_if(g, strs, stmt)
      [] stmt.kind = "While" -> generate_while(g, strs, stmt)
      [] stmt.kind = "For" -> generate_for(g, strs, stmt)
      [] stmt.kind = "ExprStmt" -> generate_expression(g, strs, stmt.expr)
      \* `_ => {}`: a Match, among others, has no arm of its own
      [] OTHER -> g

\* had_return after the loop of generate_function: a Return sets it, an
\* ExprStmt clears it, every other statement leaves it
had_return(body) ==
    \E i \in 1..Len(body) :
        /\ body[i].kind = "Return"
        /\ \A j \in (i + 1)..Len(body) : body[j].kind # "ExprStmt"

\* generate_function after the body: the ret the function falls to
generate_function_end(g, body) ==
    IF had_return(body) THEN g ELSE push(g, Ret)

\* generate_function: counters reset, `entry:`, the body (an ExprStmt
\* goes to generate_expression, as in generate_function_statement), the ret
generate_function(strs, stmt) ==
    generate_function_end(
        generate_statements(GenState(<<Label("entry", 0)>>, 0), strs,
                            stmt.body, 1),
        stmt.body)

\* ---- the programs lowered ----

Leaves == {GExprStmt(GStr(v)) : v \in StrValues} \cup {GReturn}

\* a body of at most one statement
Blocks(S) == {<<>>} \cup {<<s>> : s \in S}

\* the branches beside the one that nests
ShallowElseIfs ==
    {<<>>, <<ElseIfBranch(GBool, <<>>)>>,
     <<ElseIfBranch(GBool, <<>>), ElseIfBranch(GBool, <<>>)>>}
ShallowElse == {<<>>, <<<<>>>>}

\* if, while and for with one body drawn from D
Compounds(D) ==
    {GIf(GBool, t, ei, el) :
         t \in D, ei \in ShallowElseIfs, el \in ShallowElse}
    \cup {GIf(GBool, <<>>, <<ElseIfBranch(GBool, b)>>, el) :
              b \in D, el \in ShallowElse}
    \cup {GIf(GBool, <<>>,
              <<ElseIfBranch(GBool, <<>>), ElseIfBranch(GBool, b)>>, <<>>) :
              b \in D}
    \cup {GIf(GBool, <<>>, <<ElseIfBranch(GBool, b),
                             ElseIfBranch(GBool, <<>>)>>, <<<<>>>>) :
              b \in D}
    \cup {GIf(GBool, <<>>, ei, <<b>>) :
              b \in D, ei \in {<<>>, <<ElseIfBranch(GBool, <<>>)>>}}
    \cup {GWhile(GBool, b) : b \in D}
    \cup {GFor(<<>>, c, <<>>, b) : c \in {<<>>, <<GBool>>}, b \in D}

RECURSIVE GStmts(_)
GStmts(d) ==
    IF d = 0 THEN Leaves
    ELSE Leaves \cup Compounds(Blocks(GStmts(d - 1)))

FnBodies(d) ==
    {<<s>> : s \in GStmts(d)}
    \cup {<<s, GReturn>> : s \in GStmts(1)}
    \cup {<<GReturn, s>> : s \in GStmts(1)}

\* match true { true => B, .. , _ => B }, with up to two arms
MatchBodies == {<<>>, <<GReturn>>}
MatchArms ==
    {<<>>} \cup {<<<<GBool, b>>>> : b \in MatchBodies}
    \cup {<<<<GBool, b>>, <<GBool, <<>>>>>> : b \in MatchBodies}
Matches ==
    {GMatch(GBool, arms, default) :
         arms \in MatchArms, default \in {<<>>} \cup {<<<<GReturn>>>>}}

GPrograms(d) ==
    {<<GFunctionDecl("f", "void", b)>> : b \in FnBodies(d)}
    \cup {<<GFunctionDecl("f", "void", <<m>>)>> : m \in Matches}
    \cup {<<GFunctionDecl("f", "void", <<s>>),
            GFunctionDecl("g", "void", <<t>>)>> : s \in Leaves, t \in Leaves}
    \cup {<<s, GFunctionDecl("f", "void", <<t>>)>> :
              s \in Leaves, t \in Leaves}

\* CodeGenerator::new and the program given to generate
GenInit ==
    /\ gprogram \in GPrograms(MaxNest)
    /\ gindex = 0
    /\ strings = <<>>
    /\ label_counter = 0
    /\ gir = <<>>
    /\ gpc = "start"
    \* the other components are not exercised and stay idle
    /\ dpc = "idle" /\ verbose = FALSE /\ hasOutput = FALSE
    /\ started = <<>> /\ dresult = "none"
    /\ llFile = FALSE /\ objFile = FALSE /\ stats = FALSE
    /\ debugFile = FALSE
    /\ input = <<>> /\ lpos = 0 /\ lline = 1 /\ lcol = 1
    /\ tokens = <<>> /\ lpc = "idle"
    /\ ptoks = <<>> /\ current = 0 /\ perrors = 0
    /\ panic_mode = FALSE /\ had_error = FALSE
    /\ program = <<>> /\ ppc = "idle"
    /\ variables = <<>> /\ scope_level = 0 /\ errors = <<>>
    /\ opc = "idle" /\ oresult = <<>> /\ line = 0 /\ released = {}
    /\ tprogram = <<>> /\ tindex = 0 /\ tvariables = <<>>
    /\ functions = <<>> /\ current_function = <<>>
    /\ tpc = "idle" /\ tresult = <<>>

\* generate up to the last loop: the header, register_functions and the
\* string pre-pass over every top-level statement
generate_prepass ==
    /\ gpc = "start"
    /\ strings' = collect_strings_all(strings, gprogram, 1)
    /\ gpc' = "lower"
    /\ UNCHANGED <<gprogram, gindex, label_counter, gir>>
    /\ UNCHANGED <<dvars, lvars, pvars, ovars, tvars>>

\* one pass through the last loop of generate: generate_statement lowers a
\* FunctionDecl and skips every other statement
generate_statement ==
    /\ gpc = "lower"
    /\ gindex < Len(gprogram)
    /\ IF gprogram[gindex + 1].kind = "FunctionDecl"
       THEN /\ gir' = Append(gir,
                        generate_function(strings, gprogram[gindex + 1]).ir)
            /\ label_counter' =
                   generate_function(strings,
                                     gprogram[gindex + 1]).label_counter
       ELSE UNCHANGED <<gir, label_counter>>
    /\ gindex' = gindex + 1
    /\ UNCHANGED <<gprogram, strings, gpc>>
    /\ UNCHANGED <<dvars, lvars, pvars, ovars, tvars>>

\* the end of generate: the text is returned
generate_return ==
    /\ gpc = "lower"
    /\ gindex = Len(gprogram)
    /\ gpc' = "returned"
    /\ UNCHANGED <<gprogram, gindex, strings, label_counter, gir>>
    /\ UNCHANGED <<dvars, lvars, pvars, ovars, tvars>>

GenNext ==
    \/ generate_prepass
    \/ generate_statement
    \/ generate_return

GenSpec ==
    /\ GenInit
    /\ [][GenNext]_vars

(***************************************************************************)
(* Properties of the driver                                                *)
(***************************************************************************)

PassOrder == <<"lex", "parse", "typecheck", "ownership", "codegen", "llc",
               "link">>

\* C1: compile_internal starts its passes in the fixed order lexing,
\* parsing, type checking, ownership checking, code generation, llc, linker;
\* when parsing, type checking or ownership checking returns an error the
\* driver has returned that error and no later pass has been started.
C1_PassOrder ==
    /\ Len(started) <= Len(PassOrder)
    /\ started = SubSeq(PassOrder, 1, Len(started))
    /\ dresult = "parse_error" =>
           dpc = "returned" /\ started = SubSeq(PassOrder, 1, 2)
    /\ dresult = "type_error" =>
           dpc = "returned" /\ started = SubSeq(PassOrder, 1, 3)
    /\ dresult = "ownership_error" =>
           dpc = "returned" /\ started = SubSeq(PassOrder, 1, 4)

\* the ownership check failed after the three earlier passes had run
C1_Witness ==
    /\ dpc = "returned"
    /\ dresult = "ownership_error"
    /\ started = <<"lex", "parse", "typecheck", "ownership">>

\* C19: on every exit path of compile_internal after the temporary LLIR
\* file has been written (llc was reached), both temporary files, the .ll
\* and the .o, have been removed when the function returns
C19_TempFilesRemoved ==
    dpc = "returned" /\ (\E i \in 1..Len(started) : started[i] = "llc")
    => ~llFile /\ ~objFile

(***************************************************************************)
(* Properties of the ownership checker                                     *)
(***************************************************************************)

\* the identifiers an expression reads: <<name, column>> of every
\* Identifier node that is not the immediate operand of &, &mut or <-
RECURSIVE Reads(_)
Reads(expr) ==
    IF expr.k = "Identifier" THEN {<<expr.name, expr.column>>}
    ELSE IF expr.k \in {"OwnershipTransfer", "Borrow"}
    THEN IF expr.expr.k = "Identifier" THEN {} ELSE Reads(expr.expr)
    ELSE IF expr.k = "BinaryOp" THEN Reads(expr.left) \cup Reads(expr.right)
    ELSE IF expr.k = "UnaryOp" THEN Reads(expr.operand)
    ELSE IF expr.k = "Call"
    THEN Reads(expr.callee)
         \cup UNION {Reads(expr.args[i]) : i \in 1..Len(expr.args)}
    ELSE {}

Range(seq) == {seq[i] : i \in 1..Len(seq)}

\* the diagnostics of a Result (none while the check is running)
Reported(res) == IF res = <<>> THEN {} ELSE Range(res[1].msgs)

\* C4: a statement of any kind (variable declaration, assignment, expression
\* statement, return, the condition of an if or while) whose expression
\* reads a variable that was moved before the statement gets, for every such
\* read, a "Use of moved variable" diagnostic that carries the position of
\* the read and the position of the move.
C4_UseAfterMoveRejected ==
    [][\A expr \in Exprs :
         (\/ \E kind \in {"ExprStmt", "Return"} : stmt_other(kind, expr)
          \/ \E name \in VarNames, is_mutable \in BOOLEAN :
                 stmt_variable_decl(name, <<expr>>, is_mutable)
          \/ \E name \in VarNames : stmt_assignment(name, expr)
          \/ begin_conditional(expr))
         => \A r \in Reads(expr) :
              Tracked(variables, r[1]) /\ variables[r[1]].is_moved
              => Diag("Use of moved variable", r[1], line, r[2],
                      variables[r[1]].move_location)
                   \in Range(errors') \cup Reported(oresult')]_vars

\* the move `<- n` as the initializer of `let d = <- n`, d another name
MoveStep(n) ==
    \E d \in VarNames \ {n}, is_mutable \in BOOLEAN :
        stmt_variable_decl(d, <<Move(Ident(n, 2), 1)>>, is_mutable)

HasMutableBorrow(info) ==
    \E i \in 1..Len(info.borrows) : info.borrows[i].borrow_type = "Mutable"

\* the borrow `&x` / `&mut x` as the initializer of `let y = ..`
BorrowStep(is_mut) ==
    \E is_mutable \in BOOLEAN :
        stmt_variable_decl("y", <<BorrowOf(Ident("x", 2), is_mut, 1)>>,
                           is_mutable)

\* the check returns the Err with this one message, x is left as it was
RejectedWith(kind) ==
    /\ opc' = "aborted"
    /\ oresult' = <<ResErr(<<Diag(kind, "x", line, 1, <<>>)>>)>>
    /\ variables'["x"] = variables["x"]

\* the borrow is accepted: no diagnostic, the check goes on, one borrow of
\* the type, tagged with the current scope depth, is appended
AcceptedAs(borrow_type) ==
    /\ opc' = "check"
    /\ errors' = errors
    /\ variables'["x"] =
          [variables["x"] EXCEPT !.borrows =
              Append(@, BorrowInfo(borrow_type, scope_level, line, 1))]

C9_ScopeExit ==
    /\ [][end_block =>
            \A n \in VarNames :
               IF variables[n].tracked /\ variables[n].scope_level < scope_level
               THEN /\ variables'[n] =
                         [variables[n] EXCEPT !.borrows =
                             SelectSeq(@, LAMBDA b :
                                            b.scope_level < scope_level)]
                    /\ \A i \in 1..Len(variables'[n].borrows) :
                           variables'[n].borrows[i].scope_level # scope_level
               ELSE ~variables'[n].tracked]_vars
    /\ [](\A n \in VarNames :
            variables[n].tracked =>
               /\ variables[n].scope_level <= scope_level
               /\ \A i \in 1..Len(variables[n].borrows) :
                      variables[n].borrows[i].scope_level <= scope_level)
    /\ [](\A n \in released :
            opc = "check" /\ variables[n].borrows = <<>>
                          /\ ~variables[n].is_moved
            => LET st == check_expression(here, Move(Ident(n, 2), 1), line)
               IN st.errors = errors /\ st.variables[n].is_moved)

\* the scope in which the outer x was borrowed has been left: the borrow is
\* gone, x is still tracked
C9_Witness ==
    /\ released = {"x"}
    /\ variables["x"].tracked
    /\ variables["x"].borrows = <<>>
    /\ ~variables["x"].is_moved
    /\ scope_level >= 1

\* C10: the check does not lose a violation: when it has returned, every
\* diagnostic it recorded while walking the program is part of the error it
\* returned, and it returns only after the last statement.
C10_AllViolationsReported ==
    /\ opc # "aborted"
    /\ opc = "returned" => Range(errors) \subseteq Reported(oresult)

(***************************************************************************)
(* Properties of the type checker                                          *)
(***************************************************************************)

\* the names of the functions a program declares at top level
Declared(prog) ==
    {prog[i].name : i \in {j \in 1..Len(prog) : prog[j].k = "FunctionDecl"}}

\* a program of function declarations with distinct names and no
\* parameters, whose bodies hold nothing but calls f() of declared functions
OnlyCallsOfDeclared(prog) ==
    /\ prog # <<>>
    /\ \A i \in 1..Len(prog) :
         /\ prog[i].k = "FunctionDecl"
         /\ prog[i].params = <<>>
         /\ \A j \in 1..Len(prog) : prog[j].name = prog[i].name => j = i
         /\ prog[i].body # <<>>
         /\ \A j \in 1..Len(prog[i].body) :
              /\ prog[i].body[j].k = "ExprStmt"
              /\ prog[i].body[j].expr.k = "Call"
              /\ prog[i].body[j].expr.args = <<>>
              /\ prog[i].body[j].expr.callee.name \in Declared(prog)

\* C12: a program in which every call is a call of a function declared at
\* top level, before the caller, after it, or the caller itself, type-checks:
\* check returns Ok.
C12_ForwardReferences ==
    tpc = "returned" /\ OnlyCallsOfDeclared(tprogram) => tresult = <<ResOk>>

\* the type of a literal
LiteralType(expr) == IF expr.k = "BooleanLiteral" THEN "bool" ELSE "i32"

\* statement i of the program is a function whose declared return type is
\* not void and whose body returns a literal of another type
ReturnsOtherType(prog, i) ==
    /\ prog[i].k = "FunctionDecl"
    /\ prog[i].return_type # "void"
    /\ \E j \in 1..Len(prog[i].body) :
         /\ prog[i].body[j].k = "Return"
         /\ prog[i].body[j].value # <<>>
         /\ LiteralType(prog[i].body[j].value[1]) # prog[i].return_type

\* C13: a function whose body returns a value of another type than its
\* declared return type makes check return an Err when it is reached, and a
\* program that is one void function with a bare `return` is accepted.
C13_ReturnTypeChecked ==
    /\ \A i \in 1..Len(tprogram) :
          tindex >= i /\ ReturnsOtherType(tprogram, i)
          => tresult # <<>> /\ ~tresult[1].ok
    /\ \A n \in FnNames :
          tpc = "returned"
          /\ tprogram = <<TFunctionDecl(n, <<>>, "void", <<TReturn(<<>>)>>)>>
          => tresult = <<ResOk>>

\* C14: check goes through every statement of the program: a statement that
\* fails does not keep it from checking the siblings that follow.
C14_ChecksSiblingsAfterError ==
    [][tpc = "check" /\ tindex + 1 < Len(tprogram) => tpc' = "check"]_vars

\* width in bits of a numeric type
Width(t) ==
    CASE t \in {"i8", "u8"} -> 8
      [] t \in {"i16", "u16"} -> 16
      [] t \in {"i32", "u32", "f32"} -> 32
      [] t \in {"i64", "u64", "f64"} -> 64

\* f64 if either side is f64, else f32 if either side is f32, else the wider
\* integer type, the left one when both have the same width
Promoted(l, r) ==
    IF l = "f64" \/ r = "f64" THEN "f64"
    ELSE IF l = "f32" \/ r = "f32" THEN "f32"
    ELSE IF Width(l) >= Width(r) THEN l
    ELSE r

\* C15: after `let a: l` `let b: r` `let c = a op b`, for numeric types l
\* and r and an arithmetic operator op, the program is accepted and the type
\* of c is f64 if l or r is f64, else f32 if l or r is f32, else the wider
\* of the two integer types, l when both have the same width.
C15_NumericPromotion ==
    tpc = "returned" /\ tprogram \in ArithPrograms
    => /\ tresult = <<ResOk>>
       /\ tvariables["c"] # <<>>
       /\ tvariables["c"][1].name =
              Promoted(tvariables["a"][1].name, tvariables["b"][1].name)

(***************************************************************************)
(* Properties of the code generator                                        *)
(***************************************************************************)

IsTerminator(ins) == ins.op \in {"br", "ret"}

\* every basic block of the text ends with its only terminator: an
\* instruction is a terminator exactly when it is the last of the function
\* or the next line is a label
WellTerminated(ir) ==
    \A j \in 1..Len(ir) :
        IsTerminator(ir[j]) <=> (j = Len(ir) \/ ir[j + 1].op = "label")

\* C16: in the LLIR emitted for any function, every basic block contains
\* exactly one terminator (br or ret) and it is the block's last
\* instruction, whatever the branches and loop bodies contain
C16_OneTerminatorPerBlock ==
    gpc = "returned" => \A k \in 1..Len(gir) : WellTerminated(gir[k])

\* the labels a function's text defines, and those its br instructions name
DefinedLabels(ir) ==
    {ir[j].name : j \in {i \in 1..Len(ir) : ir[i].op = "label"}}
ReferencedLabels(ir) ==
    UNION {Range(ir[j].targets) : j \in {i \in 1..Len(ir) : ir[i].op = "br"}}

\* C17: in the LLIR emitted for any function, every label a br instruction
\* names is defined as a block label inside the same function
C17_BranchLabelsDefined ==
    \A k \in 1..Len(gir) : ReferencedLabels(gir[k]) \subseteq DefinedLabels(gir[k])

LabelKinds(ir) == {l[1] : l \in DefinedLabels(ir)}

\* generate has returned the text of a function where a loop and an if with
\* else-if and else are nested, and its br instructions name labels
C17_Witness ==
    /\ gpc = "returned"
    /\ \E k \in 1..Len(gir) :
           /\ {"then", "elseif", "else", "end", "cond", "body"}
                  \subseteq {l[1] : l \in ReferencedLabels(gir[k])}
           /\ ReferencedLabels(gir[k]) \subseteq DefinedLabels(gir[k])

\* the string literals of an expression and of statements in AST order
ExprLiterals(expr) ==
    IF expr.kind = "StringLiteral" THEN <<expr.value>> ELSE <<>>
OptionLiterals(opt) == IF opt = <<>> THEN <<>> ELSE ExprLiterals(opt[1])

RECURSIVE StmtLiterals(_)
RECURSIVE StmtsLiterals(_, _)
RECURSIVE ElseIfLiterals(_, _)
RECURSIVE ArmLiterals(_, _)

StmtsLiterals(stmts, i) ==
    IF i > Len(stmts) THEN <<>>
    ELSE StmtLiterals(stmts[i]) \o StmtsLiterals(stmts, i + 1)

ElseIfLiterals(branches, i) ==
    IF i > Len(branches) THEN <<>>
    ELSE ExprLiterals(branches[i].condition)
         \o StmtsLiterals(branches[i].body, 1)
         \o ElseIfLiterals(branches, i + 1)

ArmLiterals(arms, i) ==
    IF i > Len(arms) THEN <<>>
    ELSE ExprLiterals(arms[i][1]) \o StmtsLiterals(arms[i][2], 1)
         \o ArmLiterals(arms, i + 1)

StmtLiterals(stmt) ==
    CASE stmt.kind = "ExprStmt" -> ExprLiterals(stmt.expr)
      [] stmt.kind = "Return" -> OptionLiterals(stmt.value)
      [] stmt.kind = "If" ->
             ExprLiterals(stmt.condition)
             \o StmtsLiterals(stmt.then_branch, 1)
             \o ElseIfLiterals(stmt.else_if_branches, 1)
             \o (IF stmt.else_branch = <<>> THEN <<>>
                 ELSE StmtsLiterals(stmt.else_branch[1], 1))
      [] stmt.kind = "While" ->
             ExprLiterals(stmt.condition) \o StmtsLiterals(stmt.body, 1)
      [] stmt.kind = "For" ->
             (IF stmt.init = <<>> THEN <<>> ELSE StmtLiterals(stmt.init[1]))
             \o OptionLiterals(stmt.condition)
             \o OptionLiterals(stmt.increment)
             \o StmtsLiterals(stmt.body, 1)
      [] stmt.kind = "Match" ->
             ExprLiterals(stmt.value) \o ArmLiterals(stmt.arms, 1)
             \o (IF stmt.default = <<>> THEN <<>>
                 ELSE StmtsLiterals(stmt.default[1], 1))
      [] stmt.kind = "FunctionDecl" -> StmtsLiterals(stmt.body, 1)
      [] OTHER -> <<>>

\* a sequence without the repetitions of its elements
RECURSIVE FirstOccurrences(_, _, _)
FirstOccurrences(s, i, acc) ==
    IF i > Len(s) THEN acc
    ELSE FirstOccurrences(s, i + 1, add_string(acc, s[i]))

\* C18: after the string pre-pass the intern table holds no two equal
\* strings and every distinct literal of the program sits at the index of
\* its first occurrence in AST order
C18_InternTable ==
    gpc \in {"lower", "returned"}
    => /\ \A i, j \in 1..Len(strings) : strings[i] = strings[j] => i = j
       /\ strings = FirstOccurrences(StmtsLiterals(gprogram, 1), 1, <<>>)

\* the four states of a tracked variable
LiveOwned(info) == ~info.is_moved /\ info.borrows = <<>>
Moved(info) == info.is_moved /\ info.borrows = <<>>
SharedBorrowed(info) ==
    /\ ~info.is_moved
    /\ info.borrows # <<>>
    /\ \A i \in 1..Len(info.borrows) :
           info.borrows[i].borrow_type = "Immutable"
ExclusivelyBorrowed(info) ==
    /\ ~info.is_moved
    /\ Len(info.borrows) = 1
    /\ info.borrows[1].borrow_type = "Mutable"

OwnershipStates(info) ==
    {s \in {"live", "moved", "shared", "exclusive"} :
        \/ s = "live" /\ LiveOwned(info)
        \/ s = "moved" /\ Moved(info)
        \/ s = "shared" /\ SharedBorrowed(info)
        \/ s = "exclusive" /\ ExclusivelyBorrowed(info)}

\* C22: in every state of the ownership check each tracked variable is in
\* exactly one of the states live-owned, moved, shared-borrowed and
\* exclusively borrowed; a moved variable has no borrow and a mutable borrow
\* is the only borrow of its variable
C22_OneOwnershipState ==
    \A n \in VarNames :
        Tracked(variables, n)
        => /\ Cardinality(OwnershipStates(variables[n])) = 1
           /\ variables[n].is_moved => variables[n].borrows = <<>>
           /\ HasMutableBorrow(variables[n])
              => Len(variables[n].borrows) = 1

\* x is exclusively borrowed by `let y = &mut x` and y was moved afterwards
C22_Witness ==
    /\ Tracked(variables, "x") /\ ExclusivelyBorrowed(variables["x"])
    /\ Tracked(variables, "y") /\ Moved(variables["y"])

\* a step of the check other than the exit of a scope and the end of check
StatementStep == scope_level' >= scope_level /\ opc' # "returned"

IsPrefix(s, t) == Len(s) <= Len(t) /\ \A i \in 1..Len(s) : s[i] = t[i]

\* C23: a statement that does not leave a scope keeps a moved variable
\* moved and keeps every borrow recorded on a variable; only the exit of a
\* scope removes a borrow
C23_OwnershipMonotonic ==
    [][\A n \in VarNames :
         StatementStep /\ Tracked(variables, n)
         => /\ variables[n].is_moved
               => Tracked(variables', n) /\ variables'[n].is_moved
            /\ IsPrefix(variables[n].borrows, variables'[n].borrows)]_vars

\* C24: after the if of `let x = 1; if C { S }` (or with S in the else arm)
\* has ended, x is not moved by a move that the statement S of the arm, at
\* line 3, made; a later read or move of x is then accepted
C24_ArmMovesForgotten ==
    IfEnded /\ Tracked(variables, "x") /\ variables["x"].is_moved
    => variables["x"].move_location[1] # 3

\* C29: after the arm of `let x = 1; if C { S }` has been left, the checker
\* still tracks the x declared before the if, at depth 0 and with the
\* mutability of its declaration, also when S declares another x
C29_OuterBindingSurvives ==
    [][arm_end /\ Tracked(variables, "x")
       => /\ Tracked(variables', "x")
          /\ variables'["x"].scope_level = 0]_vars

\* the literals the lowering of the functions of a program looks up
RECURSIVE LoweredLiterals(_, _)
LoweredLiterals(prog, i) ==
    IF i > Len(prog) THEN <<>>
    ELSE (IF prog[i].kind = "FunctionDecl"
          THEN StmtsLiterals(prog[i].body, 1) ELSE <<>>)
         \o LoweredLiterals(prog, i + 1)

\* the getelementptr instructions of the functions lowered so far
RECURSIVE Lookups(_, _)
Lookups(irs, k) ==
    IF k > Len(irs) THEN <<>>
    ELSE SelectSeq(irs[k], LAMBDA ins : ins.op = "getelementptr")
         \o Lookups(irs, k + 1)

\* C25: every string literal a function body holds, in whatever statement
\* or branch, is in the table the pre-pass built, so that each lookup of
\* the lowering succeeds and yields its getelementptr: the lowered text
\* has one getelementptr per literal, none is replaced by `null`
C25_EveryLookupSucceeds ==
    gpc = "returned"
    => /\ \A i \in 1..Len(LoweredLiterals(gprogram, 1)) :
              get_string_literal(strings,
                                 LoweredLiterals(gprogram, 1)[i]) # <<>>
       /\ Len(Lookups(gir, 1)) = Len(LoweredLiterals(gprogram, 1))

Count(ir, op) == Len(SelectSeq(ir, LAMBDA ins : ins.op = op))

\* C26: the text lowered for a function whose body is one match statement
\* with at least one arm holds, for each arm, a comparison of the scrutinee
\* with the pattern of the arm and a conditional branch to the block of the
\* arm, and every arm block and the default block end in a jump to the end
\* label of the match
C26_MatchLowered ==
    gpc = "returned"
    => \A k \in 1..Len(gprogram) :
           /\ gprogram[k].kind = "FunctionDecl"
           /\ Len(gprogram[k].body) = 1
           /\ gprogram[k].body[1].kind = "Match"
           /\ gprogram[k].body[1].arms # <<>>
           => /\ Count(gir[k], "icmp") = Len(gprogram[k].body[1].arms)
              /\ Count(gir[k], "br") >= 2 * Len(gprogram[k].body[1].arms)
              /\ \E i \in 1..Len(gir[k]) :
                     gir[k][i].op = "label" /\ gir[k][i].name[1] = "end"

\* the label definitions of a text, in the order they are emitted
LabelLines(ir) == SelectSeq(ir, LAMBDA ins : ins.op = "label")

\* C28: no label is defined twice in the text of a function, whatever the
\* shape of its if statements: with or without else-if branches, with or
\* without a final else
C28_LabelsDefinedOnce ==
    \A k \in 1..Len(gir) :
        \A i, j \in 1..Len(LabelLines(gir[k])) :
            LabelLines(gir[k])[i].name = LabelLines(gir[k])[j].name => i = j

\* the newline characters among the first n characters of the source
Newlines(inp, n) == {i \in 1..n : inp[i] = "\n"}

\* line and column of the character at offset `start` (counted from 0):
\* 1 plus the newlines before it, and its place in its line
LineOf(inp, start) == 1 + Cardinality(Newlines(inp, start))
ColumnOf(inp, start) ==
    IF Newlines(inp, start) = {} THEN start + 1
    ELSE start + 1 - (CHOOSE i \in Newlines(inp, start) :
                          \A j \in Newlines(inp, start) : j <= i)

\* offset of the first character of a token whose last character is the
\* n-th of the source; the lexeme of a token is its source text
StartOf(tok, n) == n - Len(tok.lexeme)

\* C27: each token pushed (the Unknown tokens, whose lexeme is a message,
\* and EOF, which has no character, left aside) carries the line and the
\* column of its first character:
\* 1 plus the newlines before that character, and its position in its line
C27_TokenPositions ==
    [][/\ tokens' # tokens
       /\ tokens'[Len(tokens')].kind \notin {"Unknown", "EOF"}
       => /\ tokens'[Len(tokens')].line =
                 LineOf(input, StartOf(tokens'[Len(tokens')], lpos'))
          /\ tokens'[Len(tokens')].column =
                 ColumnOf(input, StartOf(tokens'[Len(tokens')], lpos'))]_vars

\* an else-if branch that does not check in the state `st`: its condition
\* has a type error or is not a bool, or a statement of its body fails
BadElseIf(st, branch) ==
    \/ ~tc_check_expression(st.variables, st.functions, branch.condition).ok
    \/ tc_check_expression(st.variables, st.functions,
                           branch.condition).ty # "bool"
    \/ tc_check_all(st, branch.body, 1).err # <<>>

\* C30: the check of a program that is one if statement fails when an
\* else-if branch has a condition that is not of type bool or a body with a
\* type error, as it does for the then and the else branch
C30_ElseIfChecked ==
    /\ tpc = "returned"
    /\ Len(tprogram) = 1
    /\ tprogram[1].k = "If"
    /\ \E i \in 1..Len(tprogram[1].else_if_branches) :
           BadElseIf(TcState([n \in TNames |-> <<>>],
                             [n \in FnNames |-> <<>>], <<>>),
                     tprogram[1].else_if_branches[i])
    => tresult # <<ResOk>>

====
